---- MODULE Spec2Model ----
(***************************************************************************)
(* A model of the ease-sdk transport core (src/src/api/index.ts), its      *)
(* error taxonomy (src/src/utils/errors.ts), the transport observers       *)
(* (src/src/core/telemetry.ts) and the consumers built on the transport:   *)
(* the blockchain data aggregators, loginCallback and getAddresses.        *)
(***************************************************************************)
EXTENDS Integers, Sequences, FiniteSets, TLC

(***************************************************************************)
(* Optional values: an absent (undefined) field is None, a present one is  *)
(* Some(v).                                                                *)
(***************************************************************************)
None == <<>>
Some(v) == <<v>>
IsSome(o) == o # None
Get(o) == o[1]

----------------------------------------------------------------------------
(* Bounds of the model. *)

NumCalls == 2
MaxObservers == 1
MaxAddresses == 3
MaxSockets == 3
MaxAttemptsConfig == 2

----------------------------------------------------------------------------
(* Error taxonomy: src/src/utils/errors.ts *)

SDKClasses ==
  {"EaseSDKError", "NetworkError", "APIError", "AuthenticationError",
   "ValidationError", "OTPError", "WebAuthnError"}

\* A context record; every key is optional.
EmptyCtx ==
  [url |-> None, method |-> None, headers |-> None, status |-> None,
   responseData |-> None, originalError |-> None, sessionId |-> None,
   operation |-> None, coin |-> None, address |-> None, credentialId |-> None,
   api |-> None, field |-> None, value |-> None, tokenPrefix |-> None,
   displayName |-> None]

RequestCtx(url, method) ==
  [EmptyCtx EXCEPT !.url = Some(url), !.method = Some(method)]

\* A value of the JavaScript heap that can be thrown: an Error object of some
\* class, or (cls = "NonError") a plain value such as a string.
JsValue(cls, name, code, message, statusCode, cause, context) ==
  [cls |-> cls, name |-> name, code |-> code, message |-> message,
   statusCode |-> statusCode, cause |-> cause, context |-> context]

JsError(name, message) ==
  JsValue("Error", name, "", message, None, None, None)

JsPlain(text) ==
  JsValue("NonError", "", "", text, None, None, None)

\* What is recorded of a cause: its class, name and message.
CauseOf(e) == Some([cls |-> e.cls, name |-> e.name, message |-> e.message])

EaseSDKError(code, message, statusCode, cause, context) ==
  JsValue("EaseSDKError", "EaseSDKError", code, message, statusCode, cause, context)

NetworkError(message, cause, context) ==
  JsValue("NetworkError", "NetworkError", "NETWORK_ERROR", message, None, cause, context)

AuthenticationError(message, code, context) ==
  JsValue("AuthenticationError", "AuthenticationError", code, message, Some(401),
          None, context)

ValidationError(message, field, value) ==
  JsValue("ValidationError", "ValidationError", "INVALID_INPUT", message, Some(400),
          None, Some([EmptyCtx EXCEPT !.field = field, !.value = value]))

WebAuthnError(message, code, context) ==
  JsValue("WebAuthnError", "WebAuthnError", code, message, Some(400), None, context)

\* The members of enum ErrorCode (lines 1-36).
ErrorCode ==
  {"NETWORK_ERROR", "API_ERROR", "TIMEOUT_ERROR", "RATE_LIMIT_ERROR",
   "INVALID_CREDENTIALS", "AUTHENTICATION_FAILED", "SESSION_EXPIRED", "UNAUTHORIZED",
   "INVALID_PHONE_NUMBER", "INVALID_OTP", "OTP_EXPIRED", "OTP_SEND_FAILED",
   "OTP_VERIFY_FAILED", "WEBAUTHN_NOT_SUPPORTED", "PASSKEY_CREATION_FAILED",
   "PASSKEY_AUTHENTICATION_FAILED", "USER_CANCELLED", "INVALID_INPUT",
   "MISSING_REQUIRED_FIELD", "INVALID_FORMAT", "UNKNOWN_ERROR", "INTERNAL_ERROR",
   "SERVICE_UNAVAILABLE"}

\* mapHTTPStatusToErrorCode with 504 grouped with the other 5xx statuses.
mapHTTPStatusToErrorCodeGrouped5xx(status) ==
  CASE status = 400 -> "INVALID_INPUT"
    [] status = 401 -> "UNAUTHORIZED"
    [] status = 403 -> "AUTHENTICATION_FAILED"
    [] status = 404 -> "API_ERROR"
    [] status = 408 -> "TIMEOUT_ERROR"
    [] status = 429 -> "RATE_LIMIT_ERROR"
    [] status \in {500, 502, 503, 504} -> "SERVICE_UNAVAILABLE"
    [] OTHER -> "API_ERROR"

mapHTTPStatusToErrorCode(status) ==
  CASE status = 400 -> "INVALID_INPUT"
    [] status = 401 -> "UNAUTHORIZED"
    [] status = 403 -> "AUTHENTICATION_FAILED"
    [] status = 404 -> "API_ERROR"
    [] status = 408 -> "TIMEOUT_ERROR"
    [] status = 429 -> "RATE_LIMIT_ERROR"
    [] status \in {500, 502, 503} -> "SERVICE_UNAVAILABLE"
    [] status = 504 -> "TIMEOUT_ERROR"
    [] OTHER -> "API_ERROR"

\* A parsed response body as far as error construction reads it: the optional
\* `error` and `message` members (an empty string is falsy, as in `||`).
Body(err, msg) == [error |-> err, message |-> msg]

Truthy(o) == IsSome(o) /\ Get(o) # ""

\* createErrorFromAPIResponse reading `message` before `error`.
createErrorFromAPIResponseMessageFirst(statusCode, responseData, context) ==
  LET message ==
        IF Truthy(responseData.message) THEN Get(responseData.message)
        ELSE IF Truthy(responseData.error) THEN Get(responseData.error)
        ELSE "HTTP " \o ToString(statusCode) \o " error"
  IN EaseSDKError(mapHTTPStatusToErrorCode(statusCode), message, Some(statusCode),
                  None, Some([context EXCEPT !.responseData = Some(responseData)]))

createErrorFromAPIResponse(statusCode, responseData, context) ==
  LET message ==
        IF Truthy(responseData.error) THEN Get(responseData.error)
        ELSE IF Truthy(responseData.message) THEN Get(responseData.message)
        ELSE "HTTP " \o ToString(statusCode) \o " error"
  IN EaseSDKError(mapHTTPStatusToErrorCode(statusCode), message, Some(statusCode),
                  None, Some([context EXCEPT !.responseData = Some(responseData)]))

isEaseSDKError(error) == error.cls \in SDKClasses

\* handleUnknownError treating every foreign value as a non-Error: the fixed
\* message, no cause, the value's text under originalError.
handleUnknownErrorFixedMessage(error, context) ==
  IF error.cls \in SDKClasses THEN error
  ELSE EaseSDKError("UNKNOWN_ERROR", "An unknown error occurred", None, None,
                    Some([context EXCEPT !.originalError = Some(error.message)]))

\* handleUnknownError without the isEaseSDKError test: every Error is wrapped
\* in a new UNKNOWN_ERROR.
handleUnknownErrorRewraps(error, context) ==
  IF error.cls # "NonError"
    THEN EaseSDKError("UNKNOWN_ERROR", error.message, None, CauseOf(error),
                      Some(context))
    ELSE EaseSDKError("UNKNOWN_ERROR", "An unknown error occurred", None, None,
                      Some([context EXCEPT !.originalError = Some(error.message)]))

handleUnknownError(error, context) ==
  IF isEaseSDKError(error) THEN error
  ELSE IF error.cls # "NonError"
    THEN EaseSDKError("UNKNOWN_ERROR", error.message, None, CauseOf(error),
                      Some(context))
    ELSE EaseSDKError("UNKNOWN_ERROR", "An unknown error occurred", None, None,
                      Some([context EXCEPT !.originalError = Some(error.message)]))

----------------------------------------------------------------------------
(* Transport observers: src/src/core/telemetry.ts *)

Observers == 1..MaxObservers

\* Values an observer callback may throw.
ObserverThrows ==
  {JsError("Error", "observer failed"), JsError("AbortError", "observer aborted")}

\* observers.forEach((o) => o.onX?.(ctx)): the callbacks run in order with no
\* guard around them; the first one that throws ends the loop and its value
\* propagates to the caller of _notify. None: every callback returned.
NotifyOutcomes(obs) ==
  IF Len(obs) = 0 THEN {None} ELSE {None} \cup {Some(v) : v \in ObserverThrows}

\* _notify.request: an onRequest callback may in addition throw an error of
\* the SDK's own classes (an observer is caller code and may itself call the
\* SDK, whose functions throw ValidationError).
NotifyRequestOutcomes(obs) ==
  NotifyOutcomes(obs)
    \cup (IF Len(obs) = 0 THEN {}
          ELSE {Some(ValidationError("Events array is required", Some("events"), None))})

indexOf(obs, o) ==
  IF \E i \in 1..Len(obs) : obs[i] = o
    THEN CHOOSE i \in 1..Len(obs) : obs[i] = o /\ \A j \in 1..(i - 1) : obs[j] # o
    ELSE 0

splice(obs, i) == [j \in 1..(Len(obs) - 1) |-> IF j < i THEN obs[j] ELSE obs[j + 1]]

----------------------------------------------------------------------------
(* Transport core: src/src/api/index.ts *)

Calls == 1..NumCalls

AuthHeaders == [Authorization |-> "Bearer secret-token"]

\* The requests issued in the model: (url, method, body, headers).  A body
\* is "null", "json" (serializable) or "circular" (JSON.stringify throws).
Requests ==
  {[url |-> "/login/callback", method |-> "POST", body |-> "json",
    headers |-> Some(AuthHeaders)],
   [url |-> "/transaction/keys/create", method |-> "POST", body |-> "circular",
    headers |-> None]}

Statuses == {200, 401, 500}

ok(status) == status >= 200 /\ status <= 299

statusText(status) ==
  CASE status = 200 -> "OK"
    [] status = 400 -> "Bad Request"
    [] status = 401 -> "Unauthorized"
    [] status = 403 -> "Forbidden"
    [] status = 404 -> "Not Found"
    [] status = 500 -> "Internal Server Error"
    [] OTHER -> ""

\* Parsed bodies of non-2xx responses.
ErrorBodies == {Body(Some("Invalid request"), Some("Bad request"))}

\* Parsed bodies of 2xx responses.
JsonData == {"null", "object"}

\* Rejections of fetch other than an abort.
FetchRejections == {JsValue("TypeError", "TypeError", "", "Network request failed",
                            None, None, None)}

AbortError == JsValue("DOMException", "AbortError", "", "The operation was aborted",
                      None, None, None)

SyntaxError == JsValue("SyntaxError", "SyntaxError", "", "Unexpected token",
                       None, None, None)

StringifyError == JsValue("TypeError", "TypeError", "",
                          "Converting circular structure to JSON", None, None, None)

Envelope(success, data, error, statusCode, errorDetails, headers) ==
  [success |-> success, data |-> data, error |-> error, statusCode |-> statusCode,
   errorDetails |-> errorDetails, headers |-> headers]

\* How a run of the handler ends: it returns an envelope or an exception
\* leaves internalApi.
Returned(envelope) == [kind |-> "returned", envelope |-> Some(envelope), thrown |-> None]
Threw(v) == [kind |-> "threw", envelope |-> None, thrown |-> Some(v)]

\* makeRequestInit: JSON.stringify(body) for a non-null body of a method other
\* than GET/HEAD.  None, or the exception it throws.
makeRequestInit(r) ==
  IF r.body # "null" /\ r.method \notin {"GET", "HEAD"} /\ r.body = "circular"
    THEN Some(StringifyError)
    ELSE None

\* The envelope of the timeout branch of the catch block (lines 291-321).
TimeoutEnvelope(r, error) ==
  Envelope(FALSE, None, Some("Request timed out"), None,
           Some(NetworkError("Request timed out", CauseOf(error),
                             Some(RequestCtx(r.url, r.method)))),
           None)

\* NetworkEnvelope as an earlier transport wrote it: the message only, no
\* errorDetails.
NetworkEnvelopeMessageOnly(r, error) ==
  LET networkError == handleUnknownError(error, RequestCtx(r.url, r.method))
  IN Envelope(FALSE, None, Some(networkError.message), None, None, None)

\* The envelope of the generic branch of the catch block (lines 323-351).
NetworkEnvelope(r, error) ==
  LET networkError == handleUnknownError(error, RequestCtx(r.url, r.method))
  IN Envelope(FALSE, None, Some(networkError.message), None, Some(networkError), None)

\* catch (error) { ... } of internalApi (lines 287-351).  notifyOut is what
\* _notify.error does inside the block: an exception thrown there is not
\* caught by anything and leaves internalApi.
CatchBlock(r, error, notifyOut) ==
  IF IsSome(notifyOut) THEN Threw(Get(notifyOut))
  ELSE IF error.name = "AbortError" THEN Returned(TimeoutEnvelope(r, error))
  ELSE Returned(NetworkEnvelope(r, error))

\* The envelope of a non-2xx response (lines 169-222).  parsed is the body
\* response.json() produced, or None when it rejected.
HttpFailureEnvelope(r, status, parsed) ==
  LET errorData ==
        IF IsSome(parsed) THEN Get(parsed)
        ELSE Body(Some("HTTP " \o ToString(status) \o ": " \o statusText(status)), None)
      apiError ==
        createErrorFromAPIResponse(status, errorData,
          [RequestCtx(r.url, r.method) EXCEPT !.headers = r.headers])
  IN Envelope(FALSE, None, Some(apiError.message), Some(status), Some(apiError), None)

\* The envelope of a 2xx response with a JSON body (line 286).
SuccessEnvelope(data) ==
  Envelope(TRUE, Some(data), None, None, None, Some("response-headers"))

\* The NetworkError raised inside the try block for a 2xx response whose body
\* does not parse (lines 229-233).
InvalidJsonError(r, status, jsonError) ==
  NetworkError("Invalid JSON response from server", CauseOf(jsonError),
               Some([RequestCtx(r.url, r.method) EXCEPT !.status = Some(status)]))

----------------------------------------------------------------------------
(* State *)

VARIABLES
  observers,    \* telemetry.ts `observers`: the registered observers, in order
  pc,           \* per call: "idle", "fetch", "errJson", "okJson" (awaiting), "done"
  req,          \* per call: the arguments of the call
  timer,        \* per call: the timeout timer: "none", "armed", "fired", "cleared"
  aborted,      \* per call: controller.signal.aborted
  status,       \* per call: response.status once fetch has resolved, else 0
  outcome,      \* per call: how the call ended (Returned / Threw), once done
  caught,       \* per call: the value the outer catch block received, if any
  sinkAffected, \* per call: the call ended otherwise than it would have, had no
                \* observer callback thrown
  terminal,     \* per call: how often _notify.response or _notify.error has
                \* run for the call (each run calls every registered observer
                \* up to the first one that throws); None when the
                \* specification keeps no count
  lateAbort,    \* per call: the timer fired after the call had completed
  agg,          \* the aggregator call in progress: its arguments, the number of
                \* transport calls it made, the envelope it got and how it ended
  login,        \* the loginCallback call in progress
  addresses,    \* the getAddresses call in progress
  conn,         \* the connectToWebSocket call: its closure variables, the
                \* sockets it created, its pending timers and token requests
  errs,         \* a use of the error utilities: the error objects that exist
                \* (heap), the value thrown, the reference last returned by
                \* handleUnknownError, and the status last classified
  joining,      \* the join or joinCallback call in progress
  log,          \* the logger: its level, its last call, the console lines
                \* written and its log-event requests
  retrying,     \* the call of the retry helper in progress: its options, its
                \* loop variables, the attempts and waits it has made
  notifying     \* the last run of a _notify function: the observers at its
                \* start, the callbacks it invoked, the observers removed
                \* while it ran

vars ==
  <<observers, pc, req, timer, aborted, status, outcome, caught, sinkAffected, terminal,
    lateAbort, agg, login, addresses, conn, errs, joining, log, retrying, notifying>>

transportVars ==
  <<pc, req, timer, aborted, status, outcome, caught, sinkAffected, terminal, lateAbort>>

Constructed ==
  /\ observers = <<>>
  /\ pc = [c \in Calls |-> "idle"]
  /\ req = [c \in Calls |-> None]
  /\ timer = [c \in Calls |-> "none"]
  /\ aborted = [c \in Calls |-> FALSE]
  /\ status = [c \in Calls |-> 0]
  /\ outcome = [c \in Calls |-> None]
  /\ caught = [c \in Calls |-> None]
  /\ sinkAffected = [c \in Calls |-> FALSE]
  /\ lateAbort = [c \in Calls |-> FALSE]
  /\ agg = [pc |-> "idle", fn |-> "", coin |-> "", address |-> "", action |-> "",
            sends |-> 0, res |-> None, out |-> None]
  /\ login = [pc |-> "idle", credential |-> None, sessionId |-> "", sends |-> 0,
              res |-> None, out |-> None]
  /\ addresses = [pc |-> "idle", build |-> "", accessToken |-> "", res |-> None,
                  out |-> None]
  /\ conn = [pc |-> "idle", enabled |-> TRUE, maxAttempts |-> 0, ws |-> <<>>,
             reconnectionAttempts |-> 0, isClosed |-> FALSE, promise |-> "pending",
             returned |-> 0, tokenRequests |-> 0, timers |-> 0, onError |-> <<>>,
             sinceOpen |-> 0, settlements |-> <<>>]
  /\ errs = [pc |-> "idle", heap |-> <<>>, context |-> None, result |-> 0,
             times |-> 0, status |-> None, code |-> "", body |-> None]
  /\ joining = [pc |-> "idle", fn |-> "", build |-> "", accessToken |-> "",
                displayName |-> "", credential |-> None, sessionId |-> "",
                sends |-> 0, res |-> None, out |-> None]
  /\ log = [level |-> 0, calls |-> 0, last |-> "", out |-> "", lines |-> 0,
            pending |-> 0, requests |-> 0]
  /\ retrying = [pc |-> "idle", fn |-> "", retries |-> 0, factor |-> 0,
                 maxDelay |-> 0, i |-> 0, currentDelay |-> 0, calls |-> 0,
                 waits |-> <<>>, last |-> None, out |-> None]
  /\ notifying = [sent |-> 0, before |-> <<>>, called |-> <<>>, removed |-> {},
                  late |-> {}]

Init == Constructed /\ terminal = [c \in Calls |-> None]

\* The same state, with the notifications of every call counted.
InitCounting == Constructed /\ terminal = [c \in Calls |-> Some(0)]

----------------------------------------------------------------------------
(* Observers: addTransportObserver and the unsubscribe closure it returns *)

addTransportObserver(o) ==
  /\ Len(observers) < MaxObservers
  /\ observers' = Append(observers, o)
  /\ UNCHANGED <<transportVars, agg, login, addresses, conn, errs, joining, log, retrying, notifying>>

\* The closure returned by addTransportObserver(o).  When o is no longer
\* registered (i < 0 in the code) the call changes nothing.
unsubscribe(o) ==
  /\ LET i == indexOf(observers, o)
     IN /\ i >= 1
        /\ observers' = splice(observers, i)
  /\ UNCHANGED <<transportVars, agg, login, addresses, conn, errs, joining, log, retrying, notifying>>

----------------------------------------------------------------------------
(* internalApi, one action per run of the handler between two awaits *)

\* clearTimeout(timeoutId): disarms an armed timer, is a no-op otherwise.
clearTimeout(t) == IF t = "armed" THEN "cleared" ELSE t

\* finally without the clearTimeout: the timer is left as it is.
finallyKeepsTimer(t) == t

\* finally { clearTimeout(timeoutId) } (lines 352-354), applied to the timer
\* on every way out of the try and catch blocks.
finally(t) == clearTimeout(t)

\* The call ends: the outcome is recorded and the finally block runs.
\* quietOut is the outcome of the same run when every observer callback
\* returns normally (None: the run would not have ended here).  notified
\* is the number of times _notify.response or _notify.error ran for the
\* call.
Finish(c, r, t, out, caughtValue, quietOut, notified) ==
  /\ pc' = [pc EXCEPT ![c] = "done"]
  /\ req' = [req EXCEPT ![c] = Some(r)]
  /\ timer' = [timer EXCEPT ![c] = finally(t)]
  /\ outcome' = [outcome EXCEPT ![c] = Some(out)]
  /\ caught' = [caught EXCEPT ![c] = caughtValue]
  /\ sinkAffected' = [sinkAffected EXCEPT ![c] = (quietOut # Some(out))]
  /\ terminal' = [terminal EXCEPT ![c] = IF IsSome(@) THEN Some(notified) ELSE @]
  /\ status' = [status EXCEPT ![c] = 0]
  /\ UNCHANGED <<observers, aborted, lateAbort, agg, login, addresses, conn, errs, joining, log, retrying, notifying>>

\* The ways the catch block can end for a thrown value, over what the
\* observers do when _notify.error runs inside it.
CatchOutcomes(r, error) ==
  {CatchBlock(r, error, n) : n \in NotifyOutcomes(observers)}

\* Lines 127-163: the controller and the timer are created, the request is
\* built and announced, and fetch is called.  An exception thrown on the way
\* (JSON.stringify, an observer's onRequest) goes to the catch block at once.
Start(c) ==
  /\ pc[c] = "idle"
  /\ \E r \in Requests, n1 \in NotifyRequestOutcomes(observers) :
       LET init == makeRequestInit(r)
           thrown == IF IsSome(init) THEN init ELSE n1
       IN IF thrown = None
            THEN /\ pc' = [pc EXCEPT ![c] = "fetch"]
                 /\ req' = [req EXCEPT ![c] = Some(r)]
                 /\ timer' = [timer EXCEPT ![c] = "armed"]
                 /\ UNCHANGED <<observers, aborted, status, outcome, caught,
                                sinkAffected, terminal, lateAbort, agg, login, addresses, conn, errs, joining, log, retrying, notifying>>
            ELSE \E out \in CatchOutcomes(r, Get(thrown)) :
                   Finish(c, r, "armed", out, thrown,
                          IF IsSome(init)
                            THEN Some(CatchBlock(r, Get(init), None))
                            ELSE None,
                          1)

\* TimerFire with one AbortController shared by all calls instead of one per
\* call: the timer of one call aborts every call.
TimerFireSharedController(c) ==
  /\ timer[c] = "armed"
  /\ timer' = [timer EXCEPT ![c] = "fired"]
  /\ aborted' = [d \in Calls |-> TRUE]
  /\ lateAbort' = [lateAbort EXCEPT ![c] = (pc[c] = "done")]
  /\ UNCHANGED <<observers, pc, req, status, outcome, caught, sinkAffected, terminal,
                 agg, login, addresses, conn, errs, joining, log, retrying, notifying>>

\* setTimeout(() => controller.abort(), timeout) (line 128): the timer fires.
TimerFire(c) ==
  /\ timer[c] = "armed"
  /\ timer' = [timer EXCEPT ![c] = "fired"]
  /\ aborted' = [aborted EXCEPT ![c] = TRUE]
  /\ lateAbort' = [lateAbort EXCEPT ![c] = (pc[c] = "done")]
  /\ UNCHANGED <<observers, pc, req, status, outcome, caught, sinkAffected, terminal,
                 agg, login, addresses, conn, errs, joining, log, retrying, notifying>>

\* await fetch(fullUrl, init) resolves with a response (lines 163-166); the
\* handler goes on to await response.json().
FetchResolve(c) ==
  /\ pc[c] = "fetch"
  /\ ~aborted[c]
  /\ \E s \in Statuses :
       /\ status' = [status EXCEPT ![c] = s]
       /\ pc' = [pc EXCEPT ![c] = IF ok(s) THEN "okJson" ELSE "errJson"]
  /\ UNCHANGED <<observers, req, timer, aborted, outcome, caught, sinkAffected, terminal,
                 lateAbort, agg, login, addresses, conn, errs, joining, log, retrying, notifying>>

\* await fetch(...) rejects with a network error: catch block.
FetchReject(c) ==
  /\ pc[c] = "fetch"
  /\ ~aborted[c]
  /\ \E e \in FetchRejections :
       \E out \in CatchOutcomes(Get(req[c]), e) :
         Finish(c, Get(req[c]), timer[c], out, Some(e),
                Some(CatchBlock(Get(req[c]), e, None)), 1)

\* The signal was aborted while fetch was in flight: fetch rejects with an
\* AbortError: catch block.
FetchAbort(c) ==
  /\ pc[c] = "fetch"
  /\ aborted[c]
  /\ \E out \in CatchOutcomes(Get(req[c]), AbortError) :
       Finish(c, Get(req[c]), timer[c], out, Some(AbortError),
              Some(CatchBlock(Get(req[c]), AbortError, None)), 1)

\* ErrJsonSettle for a transport that answers a non-2xx response by issuing
\* the request again.
ErrJsonSettleRetries(c) ==
  /\ pc[c] = "errJson"
  /\ pc' = [pc EXCEPT ![c] = "fetch"]
  /\ status' = [status EXCEPT ![c] = 0]
  /\ UNCHANGED <<observers, req, timer, aborted, outcome, caught, sinkAffected, terminal,
                 lateAbort, agg, login, addresses, conn, errs, joining, log, retrying, notifying>>

\* Non-2xx (lines 169-222): await response.json() settles (parsed, or None
\* when it rejects), the error is built and announced and the failure
\* envelope returned.  An observer's onError throwing goes to the catch block.
ErrJsonSettle(c) ==
  /\ pc[c] = "errJson"
  /\ \E parsed \in {None} \cup {Some(b) : b \in ErrorBodies},
        n1 \in NotifyOutcomes(observers) :
       LET r == Get(req[c])
           env == Returned(HttpFailureEnvelope(r, status[c], parsed))
       IN \E out \in (IF IsSome(n1) THEN CatchOutcomes(r, Get(n1)) ELSE {env}) :
            Finish(c, r, timer[c], out, n1, Some(env),
                   IF IsSome(n1) THEN 2 ELSE 1)

\* 2xx with a JSON body (lines 262-286).  An observer's onResponse throwing
\* goes to the catch block.
OkJsonResolve(c) ==
  /\ pc[c] = "okJson"
  /\ \E data \in JsonData, n1 \in NotifyOutcomes(observers) :
       LET r == Get(req[c])
           env == Returned(SuccessEnvelope(data))
       IN \E out \in (IF IsSome(n1) THEN CatchOutcomes(r, Get(n1)) ELSE {env}) :
            Finish(c, r, timer[c], out, n1, Some(env),
                   IF IsSome(n1) THEN 2 ELSE 1)

\* 2xx whose body does not parse (lines 226-260): response.json() rejects (a
\* syntax error, or an AbortError when the signal was aborted while the body
\* was read); a NetworkError is announced and thrown to the catch block,
\* which announces it again (lines 326-334).
OkJsonReject(c) ==
  /\ pc[c] = "okJson"
  /\ \E jsonError \in {SyntaxError} \cup (IF aborted[c] THEN {AbortError} ELSE {}),
        n1 \in NotifyOutcomes(observers) :
       LET r == Get(req[c])
           netErr == InvalidJsonError(r, status[c], jsonError)
           thrown == IF IsSome(n1) THEN Get(n1) ELSE netErr
       IN \E out \in CatchOutcomes(r, thrown) :
            Finish(c, r, timer[c], out, Some(thrown),
                   Some(CatchBlock(r, netErr, None)), 2)

Next ==
  \/ \E o \in Observers : addTransportObserver(o)
  \/ \E o \in Observers : unsubscribe(o)
  \/ \E c \in Calls : Start(c)
  \/ \E c \in Calls : TimerFire(c)
  \/ \E c \in Calls : FetchResolve(c)
  \/ \E c \in Calls : FetchReject(c)
  \/ \E c \in Calls : FetchAbort(c)
  \/ \E c \in Calls : ErrJsonSettle(c)
  \/ \E c \in Calls : OkJsonResolve(c)
  \/ \E c \in Calls : OkJsonReject(c)

Spec == Init /\ [][Next]_vars

\* The transport with the notifications counted.
SpecNotify == InitCounting /\ [][Next]_vars

----------------------------------------------------------------------------
(* JSON response bodies read by the consumers of the transport.  One record  *)
(* shape serves every backend; a member that is absent has tag "absent".     *)

Item(tokens, account, name, symbol, to, id, vout, vin, value) ==
  [tokens |-> tokens, account |-> account, name |-> name, symbol |-> symbol,
   to |-> to, id |-> id, vout |-> vout, vin |-> vin, value |-> value]

\* A string element such as "10.0000 EASE", as its space-separated tokens.
StrItem(tokens) == Item(tokens, "", "", "", "", "", <<>>, <<>>, 0)

\* An action of the internal chain: act.account, act.name, act.data.symbol,
\* act.data.to, act.data.quantity (tokens), trx_id.
EaseAction(account, name, symbol, to, quantity, trx_id) ==
  Item(quantity, account, name, symbol, to, trx_id, <<>>, <<>>, 0)

\* A BTC transaction: txid, vout[] of (scriptpubkey_address, value), vin[] of
\* prevout (scriptpubkey_address, value).
BtcTx(txid, vout, vin) == Item(<<>>, "", "", "", "", txid, vout, vin, 0)

\* An ETH transaction: hash, to, value (in units of 10^10 wei).
EthTx(hash, to, value) == Item(<<>>, "", "", "", to, hash, <<>>, <<>>, value)

Json(kind, items, chain_stats, result, actions) ==
  [kind |-> kind, items |-> items, chain_stats |-> chain_stats, result |-> result,
   actions |-> actions]

Absent == [tag |-> "absent", funded |-> 0, spent |-> 0, n |-> 0, items |-> <<>>]
JsonNull == Json("null", <<>>, Absent, Absent, Absent)
JsonArray(items) == Json("array", items, Absent, Absent, Absent)
JsonObject(chain_stats, result, actions) == Json("object", <<>>, chain_stats, result, actions)

\* !data: null is falsy; arrays and objects are truthy.
Falsy(data) == data = None \/ Get(data).kind = "null"

\* Array.isArray(data)
isArray(data) == IsSome(data) /\ Get(data).kind = "array"

E8 == 100000000

Pad8(n) ==
  CASE n < 10 -> "0000000" \o ToString(n)
    [] n < 100 -> "000000" \o ToString(n)
    [] n < 1000 -> "00000" \o ToString(n)
    [] n < 10000 -> "0000" \o ToString(n)
    [] n < 100000 -> "000" \o ToString(n)
    [] n < 1000000 -> "00" \o ToString(n)
    [] n < 10000000 -> "0" \o ToString(n)
    [] OTHER -> ToString(n)

\* toFixed8 without the zeros that pad the fraction to eight digits.
toFixed8Unpadded(units) ==
  LET a == IF units < 0 THEN -units ELSE units
  IN (IF units < 0 THEN "-" ELSE "") \o ToString(a \div E8) \o "." \o ToString(a % E8)

\* (units / 1e8).toFixed(8) for an integer number of units.
toFixed8(units) ==
  LET a == IF units < 0 THEN -units ELSE units
  IN (IF units < 0 THEN "-" ELSE "") \o ToString(a \div E8) \o "." \o Pad8(a % E8)

toUpperCase(str) ==
  CASE str = "btc" -> "BTC"
    [] str = "0xabc" -> "0XABC"
    [] str = "0xAbC" -> "0XABC"
    [] OTHER -> str

toLowerCase(str) ==
  CASE str = "0xAbC" -> "0xabc"
    [] str = "BTC" -> "btc"
    [] OTHER -> str

----------------------------------------------------------------------------
(* Blockchain data aggregators: src/src/wallet/index.ts (getWalletBalance,  *)
(* getWalletHistory) and src/src/api/externalApi.ts                          *)
(* (fetchExternalBlockchainData).                                            *)


\* How an aggregator call ends.
RetBalance(b) == [kind |-> "returned", balance |-> Some(b), history |-> None, thrown |-> None]
RetHistory(h) == [kind |-> "returned", balance |-> None, history |-> Some(h), thrown |-> None]
Raise(e) == [kind |-> "threw", balance |-> None, history |-> None, thrown |-> Some(e)]

Transaction(id, type, amount, explorerURL) ==
  [id |-> id, type |-> type, amount |-> amount, explorerURL |-> explorerURL]

AggCtx(coin, address, operation) ==
  [EmptyCtx EXCEPT !.coin = Some(coin), !.address = Some(address),
                   !.operation = Some(operation)]

TypeErrorOf(message) == JsValue("TypeError", "TypeError", "", message, None, None, None)

\* items.find((v) => v.scriptpubkey_address === address), or with prevout
\* (v) => v.prevout?.scriptpubkey_address === address: the position of the
\* first match, 0 when there is none.
find(items, address, prevout) ==
  LET p(v) == (prevout => v.hasPrevout) /\ v.addr = address
  IN IF \E i \in 1..Len(items) : p(items[i])
       THEN CHOOSE i \in 1..Len(items) :
              p(items[i]) /\ \A j \in 1..(i - 1) : ~p(items[j])
       ELSE 0

\* BtcTransaction with the direction taken from the inputs: a transaction
\* that spends an output of the address is outgoing.
BtcTransactionDirectionFromInputs(tx, address, explorer) ==
  LET isIncoming == find(tx.vin, address, TRUE) = 0
      o == find(tx.vout, address, FALSE)
      i == find(tx.vin, address, TRUE)
      amountSats == IF isIncoming
                      THEN (IF o = 0 THEN 0 ELSE tx.vout[o].value)
                      ELSE (IF i = 0 THEN 0 ELSE tx.vin[i].value)
  IN Transaction(tx.id, IF isIncoming THEN "in" ELSE "out", toFixed8(amountSats),
                 explorer \o "/tx/" \o tx.id)

\* The BTC transaction mapping shared by both aggregators
\* (wallet/index.ts 436-448, externalApi.ts 88-100).
BtcTransaction(tx, address, explorer) ==
  LET isIncoming == \E k \in 1..Len(tx.vout) : tx.vout[k].addr = address
      o == find(tx.vout, address, FALSE)
      i == find(tx.vin, address, TRUE)
      amountSats == IF isIncoming
                      THEN (IF o = 0 THEN 0 ELSE tx.vout[o].value)
                      ELSE (IF i = 0 THEN 0 ELSE tx.vin[i].value)
  IN Transaction(tx.id, IF isIncoming THEN "in" ELSE "out", toFixed8(amountSats),
                 explorer \o "/tx/" \o tx.id)

\* The ETH transaction mapping (wallet/index.ts 477-485, externalApi.ts 125-133).
EthTransaction(tx, address, explorer) ==
  Transaction(tx.id,
              IF toLowerCase(tx.to) = toLowerCase(address) THEN "in" ELSE "out",
              toFixed8(tx.value), explorer \o "/tx/" \o tx.id)

\* The internal-chain action mapping (wallet/index.ts 410-419, externalApi.ts 55-64).
EaseTransaction(action, address) ==
  Transaction(action.id, IF action.to = address THEN "in" ELSE "out",
              action.tokens[1], "")

\* `${res.error}`
errorText(res) == IF IsSome(res.error) THEN Get(res.error) ELSE "undefined"

\* wallet/index.ts: `if (!res.success || !res.data) throw res.errorDetails || new
\* EaseSDKError(...)`, as rethrown by the function's catch block.
walletFailure(res, what, ctx) ==
  Raise(handleUnknownError(
          IF IsSome(res.errorDetails) THEN Get(res.errorDetails)
          ELSE EaseSDKError("API_ERROR", what \o " request failed: " \o errorText(res),
                            None, None, None),
          ctx))

\* getWalletBalance after `await api(...)` returned res (lines 297-362).
getWalletBalance(coin, address, res) ==
  LET ctx == AggCtx(coin, address, "getWalletBalance")
      up == toUpperCase(coin)
  IN IF ~res.success \/ Falsy(res.data)
       THEN walletFailure(res, up \o " balance", ctx)
     ELSE LET data == Get(res.data) IN
       CASE up = "EASE" ->
              IF data.kind # "array" \/ Len(data.items) = 0 THEN RetBalance("0")
              ELSE RetBalance(data.items[1].tokens[1])
         [] up = "BTC" ->
              IF data.chain_stats.tag = "absent" THEN RetBalance("0")
              ELSE IF data.chain_stats.tag = "null"
                THEN Raise(handleUnknownError(
                             TypeErrorOf("Cannot read properties of null"), ctx))
              ELSE RetBalance(toFixed8(data.chain_stats.funded - data.chain_stats.spent))
         [] OTHER ->
              IF data.result.tag = "absent" THEN RetBalance("0")
              ELSE RetBalance(toFixed8(data.result.n))

\* getWalletHistory after `await api(...)` returned res (lines 387-486).
getWalletHistory(coin, address, res) ==
  LET ctx == AggCtx(coin, address, "getWalletHistory")
      up == toUpperCase(coin)
  IN IF ~res.success \/ Falsy(res.data)
       THEN walletFailure(res, up \o " history", ctx)
     ELSE LET data == Get(res.data) IN
       CASE up = "EASE" ->
              IF data.actions.tag # "array" THEN RetHistory(<<>>)
              ELSE LET keep(a) == a.account = "eosio.token" /\ a.name = "transfer"
                       f(a) == EaseTransaction(a, address)
                       kept == SelectSeq(data.actions.items, keep)
                 IN RetHistory([k \in 1..Len(kept) |-> f(kept[k])])
         [] up = "BTC" ->
              LET txs == IF data.kind = "array" THEN data.items ELSE <<>>
                  f(tx) == BtcTransaction(tx, address, "https://mempool.space/testnet")
              IN RetHistory([k \in 1..Len(txs) |-> f(txs[k])])
         [] OTHER ->
              IF data.result.tag # "array" THEN RetHistory(<<>>)
              ELSE LET f(tx) == EthTransaction(tx, address, "https://sepolia.etherscan.io")
                   IN RetHistory([k \in 1..Len(data.result.items) |-> f(data.result.items[k])])

\* fetchExternalBlockchainData after `await internalApi(...)` returned
\* response (externalApi.ts lines 30-133).
fetchExternalBlockchainData(coin, address, action, response) ==
  LET ctx == AggCtx(coin, address, "fetchExternalBlockchainData")
      up == toUpperCase(coin)
      data == Get(response.data)
  IN CASE up = "EASE" /\ action = "balance" ->
            IF ~response.success \/ ~isArray(response.data) \/ Len(data.items) = 0
              THEN RetBalance("0")
              ELSE RetBalance(data.items[1].tokens[1])
       [] up = "EASE" /\ action = "history" ->
            IF ~response.success THEN RetHistory(<<>>)
            ELSE IF data.kind = "null"
              THEN Raise(handleUnknownError(
                           TypeErrorOf("Cannot read properties of null"), ctx))
            ELSE IF data.actions.tag # "array" THEN RetHistory(<<>>)
            ELSE LET keep(a) == /\ a.account = "eosio.token" /\ a.name = "transfer"
                                /\ a.symbol = "EASE"
                     f(a) == EaseTransaction(a, address)
                     kept == SelectSeq(data.actions.items, keep)
                 IN RetHistory([k \in 1..Len(kept) |-> f(kept[k])])
       [] up = "BTC" /\ action = "balance" ->
            IF ~response.success \/ Falsy(response.data)
                 \/ data.chain_stats.tag = "absent"
              THEN RetBalance("0")
            ELSE IF data.chain_stats.tag = "null"
              THEN Raise(handleUnknownError(
                           TypeErrorOf("Cannot read properties of null"), ctx))
            ELSE RetBalance(toFixed8(data.chain_stats.funded - data.chain_stats.spent))
       [] up = "BTC" /\ action = "history" ->
            IF ~response.success \/ ~isArray(response.data) THEN RetHistory(<<>>)
            ELSE LET f(tx) == BtcTransaction(tx, address, "https://mempool.space/testnet")
                 IN RetHistory([k \in 1..Len(data.items) |-> f(data.items[k])])
       [] up = "ETH" /\ action = "balance" ->
            IF ~response.success \/ Falsy(response.data) \/ data.result.tag = "absent"
              THEN RetBalance("0")
              ELSE RetBalance(toFixed8(data.result.n))
       [] OTHER ->
            IF ~response.success \/ Falsy(response.data) \/ data.result.tag # "array"
              THEN RetHistory(<<>>)
              ELSE LET f(tx) == EthTransaction(tx, address, "https://sepolia.etherscan.io")
                   IN RetHistory([k \in 1..Len(data.result.items) |-> f(data.result.items[k])])

----------------------------------------------------------------------------
(* The aggregators as processes: the call up to `await api(...)`, then the  *)
(* continuation on the envelope the transport returned.                     *)

Member(tag, funded, spent, n, items) ==
  [tag |-> tag, funded |-> funded, spent |-> spent, n |-> n, items |-> items]

\* 2xx bodies a backend may answer with, for a coin (upper case) and action.
AggData(up, action, address) ==
  CASE up = "EASE" /\ action = "balance" ->
         {JsonNull, JsonArray(<<>>), JsonObject(Absent, Absent, Absent),
          JsonArray(<<StrItem(<<"10.0000", "EASE">>)>>)}
    [] up = "BTC" /\ action = "balance" ->
         {JsonNull, JsonObject(Absent, Absent, Absent),
          JsonObject(Member("null", 0, 0, 0, <<>>), Absent, Absent),
          JsonObject(Member("object", 2 * E8, E8, 0, <<>>), Absent, Absent),
          JsonObject(Member("object", 150000000, 0, 0, <<>>), Absent, Absent),
          JsonObject(Member("object", 123456789, 123456788, 0, <<>>), Absent, Absent),
          JsonObject(Member("object", 2123456789, 0, 0, <<>>), Absent, Absent),
          JsonObject(Member("object", E8, E8, 0, <<>>), Absent, Absent)}
    [] up = "ETH" /\ action = "balance" ->
         {JsonNull, JsonObject(Absent, Absent, Absent),
          JsonObject(Absent, Member("number", 0, 0, E8, <<>>), Absent)}
    [] up = "EASE" /\ action = "history" ->
         {JsonNull, JsonObject(Absent, Absent, Absent),
          JsonObject(Absent, Absent, Member("array", 0, 0, 0,
            <<EaseAction("eosio.token", "transfer", "", address, <<"5.0000", "EASE">>, "trx1"),
              EaseAction("eosio.token", "transfer", "EASE", "other", <<"2.0000", "EASE">>, "trx2"),
              EaseAction("eosio", "newaccount", "", "other", <<>>, "trx3")>>))}
    [] up = "BTC" /\ action = "history" ->
         {JsonNull, JsonObject(Absent, Absent, Absent),
          JsonArray(<<>>),
          JsonArray(<<BtcTx("btc_trx1", <<[addr |-> address, value |-> E8, hasPrevout |-> TRUE]>>, <<>>),
                      BtcTx("btc_trx2", <<>>, <<[addr |-> address, value |-> 50000000, hasPrevout |-> TRUE]>>),
                      BtcTx("btc_trx3",
                            <<[addr |-> "other", value |-> 10000000, hasPrevout |-> TRUE],
                              [addr |-> address, value |-> 30000000, hasPrevout |-> TRUE],
                              [addr |-> address, value |-> 20000000, hasPrevout |-> TRUE]>>,
                            <<[addr |-> address, value |-> 70000000, hasPrevout |-> TRUE]>>),
                      BtcTx("btc_trx4",
                            <<[addr |-> "other", value |-> 40000000, hasPrevout |-> TRUE]>>,
                            <<[addr |-> address, value |-> 0, hasPrevout |-> FALSE],
                              [addr |-> "other", value |-> 40000000, hasPrevout |-> TRUE]>>),
                      BtcTx("btc_trx5",
                            <<[addr |-> address, value |-> 0, hasPrevout |-> TRUE]>>,
                            <<[addr |-> "other", value |-> 1, hasPrevout |-> TRUE]>>)>>)}
    [] OTHER ->
         {JsonNull, JsonObject(Absent, Member("other", 0, 0, 0, <<>>), Absent),
          JsonObject(Absent, Member("array", 0, 0, 0,
            <<EthTx("eth_trx1", toLowerCase(address), 2 * E8),
              EthTx("eth_trx2", "other", E8)>>), Absent)}

\* utils/urls.ts, environment "develop"; a service the table does not
\* list reads as undefined.
getUrl(service) ==
  CASE service = "MEMPOOL_SPACE" -> "https://mempool.space/testnet"
    [] service = "ETHERSCAN_PROXY" -> "https://etherscan-proxy-am1u.vercel.app"
    [] service = "SEPOLIA_ETHERSCAN" -> "https://sepolia.etherscan.io"
    [] OTHER -> "undefined"

\* The transport call an aggregator makes: (url, method, body, headers).
AggRequest(fn, up, address, action) ==
  LET url ==
        IF fn = "wallet"
          THEN CASE up = "EASE" /\ action = "balance" ->
                      "https://testnet.ease.tech/v1/chain/get_currency_balance"
                 [] up = "EASE" /\ action = "history" ->
                      "https://testnet.ease.tech/v2/history/get_actions?account="
                        \o address \o "&limit=20"
                 [] up = "BTC" /\ action = "balance" ->
                      "https://mempool.space/testnet/api/address/" \o address
                 [] up = "BTC" /\ action = "history" ->
                      "https://mempool.space/testnet/api/address/" \o address \o "/txs"
                 [] up = "ETH" /\ action = "balance" ->
                      "https://api-sepolia.etherscan.io/api?module=account&action=balance&address="
                        \o address \o "&tag=latest&apikey=KEY"
                 [] OTHER ->
                      "https://api-sepolia.etherscan.io/api?module=account&action=txlist&address="
                        \o address \o "&sort=desc&apikey=KEY"
          ELSE CASE up = "EASE" /\ action = "balance" ->
                      getUrl("EASE_CHAIN_API") \o "/v1/chain/get_currency_balance"
                 [] up = "EASE" /\ action = "history" ->
                      getUrl("EASE_CHAIN_API") \o "/v2/history/get_actions"
                 [] up = "BTC" /\ action = "balance" ->
                      getUrl("MEMPOOL_SPACE") \o "/api/address/" \o address
                 [] up = "BTC" /\ action = "history" ->
                      getUrl("MEMPOOL_SPACE") \o "/api/address/" \o address \o "/txs"
                 [] up = "ETH" /\ action = "balance" ->
                      getUrl("ETHERSCAN_PROXY") \o "/api/balance?address=" \o address
                 [] OTHER ->
                      getUrl("ETHERSCAN_PROXY") \o "/api/history?address=" \o address
  IN [url |-> url,
      method |-> IF up = "EASE" /\ action = "balance" THEN "POST" ELSE "GET",
      body |-> IF up = "EASE" /\ action = "balance" THEN "json" ELSE "null",
      headers |-> None]

\* The failure envelopes internalApi can return for request r.
FailureEnvelopes(r) ==
  {HttpFailureEnvelope(r, 500, None),
   HttpFailureEnvelope(r, 400, Some(Body(None, None))),
   TimeoutEnvelope(r, AbortError)}
    \cup {NetworkEnvelope(r, e) : e \in FetchRejections}

\* The default branch reporting the coin as a failure of the backend.
unsupportedCoinAsApiError(coin, ctx) ==
  handleUnknownError(
    EaseSDKError("API_ERROR", "Unsupported coin: " \o coin, None, None, None), ctx)

\* The default branch of the switch on coin.toUpperCase() (wallet/index.ts
\* 364-369, 488-493; externalApi.ts 137-138, 144-145): the error thrown, as
\* rethrown by the catch block.
unsupportedCoin(coin, ctx) ==
  handleUnknownError(
    EaseSDKError("INVALID_INPUT", "Unsupported coin: " \o coin, None, None, None), ctx)

\* getWalletBalance / getWalletHistory (wallet/index.ts 278-296, 372-386) and
\* fetchExternalBlockchainData (externalApi.ts 12-29) up to the await: the
\* argument checks, the switch on coin.toUpperCase(), the request.
AggCall(fn, coin, address, action) ==
  /\ agg.pc = "idle"
  /\ LET up == toUpperCase(coin)
         operation == IF fn = "external" THEN "fetchExternalBlockchainData"
                      ELSE IF action = "balance" THEN "getWalletBalance"
                      ELSE "getWalletHistory"
         started == [agg EXCEPT !.fn = fn, !.coin = coin, !.address = address,
                                !.action = action]
     IN IF fn = "wallet" /\ coin = ""
          THEN /\ agg' = [started EXCEPT !.pc = "done", !.out = Some(Raise(
                            EaseSDKError("INVALID_INPUT", "Coin must be a non-empty string.",
                                         None, None, None)))]
               /\ UNCHANGED <<observers, transportVars, login, addresses, conn, errs, joining, log, retrying, notifying>>
        ELSE IF fn = "wallet" /\ address = ""
          THEN /\ agg' = [started EXCEPT !.pc = "done", !.out = Some(Raise(
                            EaseSDKError("INVALID_INPUT", "Address must be a non-empty string.",
                                         None, None, None)))]
               /\ UNCHANGED <<observers, transportVars, login, addresses, conn, errs, joining, log, retrying, notifying>>
        ELSE IF up \notin {"EASE", "BTC", "ETH"}
          THEN /\ agg' = [started EXCEPT !.pc = "done", !.out = Some(Raise(
                            unsupportedCoin(coin, AggCtx(coin, address, operation))))]
               /\ UNCHANGED <<observers, transportVars, login, addresses, conn, errs, joining, log, retrying, notifying>>
        ELSE /\ agg' = [started EXCEPT !.pc = "awaiting", !.sends = agg.sends + 1]
             /\ UNCHANGED <<observers, transportVars, login, addresses, conn, errs, joining, log, retrying, notifying>>

\* AggSettle for an aggregator that answers the envelope by sending the
\* request again (a second backend, or a retry).
AggSettleSendsAgain ==
  /\ agg.pc = "awaiting"
  /\ agg.sends < 3
  /\ agg' = [agg EXCEPT !.sends = @ + 1]
  /\ UNCHANGED <<observers, transportVars, login, addresses, conn, errs, joining, log, retrying, notifying>>

\* `await api(...)` returns an envelope and the aggregator finishes.
AggSettle ==
  /\ agg.pc = "awaiting"
  /\ \E res \in FailureEnvelopes(AggRequest(agg.fn, toUpperCase(agg.coin), agg.address,
                                            agg.action))
                  \cup {SuccessEnvelope(d) :
                          d \in AggData(toUpperCase(agg.coin), agg.action, agg.address)} :
       /\ agg' = [agg EXCEPT
            !.pc = "done", !.res = Some(res),
            !.out = Some(IF agg.fn = "external"
                           THEN fetchExternalBlockchainData(agg.coin, agg.address,
                                                            agg.action, res)
                         ELSE IF agg.action = "balance"
                           THEN getWalletBalance(agg.coin, agg.address, res)
                         ELSE getWalletHistory(agg.coin, agg.address, res))]
       /\ UNCHANGED <<observers, transportVars, login, addresses, conn, errs, joining, log, retrying, notifying>>

\* `await api(...)` rejects (an exception left internalApi): the aggregator's
\* catch block rethrows it through handleUnknownError.
AggApiThrows ==
  /\ agg.pc = "awaiting"
  /\ \E v \in ObserverThrows :
       /\ agg' = [agg EXCEPT
            !.pc = "done",
            !.out = Some(Raise(handleUnknownError(v,
                      AggCtx(agg.coin, agg.address,
                             IF agg.fn = "external" THEN "fetchExternalBlockchainData"
                             ELSE IF agg.action = "balance" THEN "getWalletBalance"
                             ELSE "getWalletHistory"))))]
       /\ UNCHANGED <<observers, transportVars, login, addresses, conn, errs, joining, log, retrying, notifying>>

NextAggregator ==
  \/ \E fn \in {"wallet", "external"},
        coin \in {"EASE", "BTC", "ETH", "DOGE", "btc", ""},
        address \in {"addr1", "0xAbC", ""},
        action \in {"balance", "history"} : AggCall(fn, coin, address, action)
  \/ AggSettle
  \/ AggApiThrows

SpecAggregator == Init /\ [][NextAggregator]_vars

\* C5: whenever the transport returned a failure envelope for a balance or
\* history request, the aggregator raised a DomainError; it returned neither
\* a balance string nor a transaction list.
C5_FailurePropagates ==
  (agg.pc = "done" /\ IsSome(agg.res) /\ ~Get(agg.res).success) =>
    /\ Get(agg.out).kind = "threw"
    /\ isEaseSDKError(Get(Get(agg.out).thrown))

\* The shape a backend's 2xx body is expected to have, for a coin (upper
\* case) and action.
ExpectedShape(up, action, data) ==
  CASE up = "EASE" /\ action = "balance" -> data.kind = "array" /\ Len(data.items) > 0
    [] up = "BTC" /\ action = "balance" ->
         data.kind = "object" /\ data.chain_stats.tag = "object"
    [] up = "ETH" /\ action = "balance" ->
         data.kind = "object" /\ data.result.tag # "absent"
    [] up = "EASE" /\ action = "history" ->
         data.kind = "object" /\ data.actions.tag = "array"
    [] up = "BTC" /\ action = "history" -> data.kind = "array"
    [] OTHER -> data.kind = "object" /\ data.result.tag = "array"

\* C11: for a supported coin, a 2xx response whose body is empty (null) or
\* not of the expected shape makes the balance operation return "0" and the
\* history operation return an empty list; it never raises an error.
C11_MalformedDegrades ==
  (/\ agg.pc = "done" /\ IsSome(agg.res) /\ Get(agg.res).success
   /\ ~ExpectedShape(toUpperCase(agg.coin), agg.action, Get(Get(agg.res).data))) =>
    /\ Get(agg.out).kind = "returned"
    /\ agg.action = "balance" => Get(agg.out).balance = Some("0")
    /\ agg.action = "history" => Get(agg.out).history = Some(<<>>)

\* C24: an aggregator call makes at most one transport call, whatever the
\* coin and however the call ends: the one it makes when it starts waiting,
\* and none when it rejects its arguments.
C24_OneSendPerRequest ==
  /\ agg.sends <= 1
  /\ agg.pc = "idle" => agg.sends = 0
  /\ agg.pc = "awaiting" => agg.sends = 1
  /\ (agg.pc = "done" /\ agg.res = None /\ Get(agg.out).kind = "threw"
        /\ Get(Get(agg.out).thrown).code = "INVALID_INPUT") => agg.sends = 0

\* C24 witness: a BTC history request has ended in an error after its one
\* transport call returned the timeout envelope.
C24_Witness ==
  /\ agg.pc = "done" /\ agg.coin = "BTC" /\ agg.action = "history"
  /\ agg.sends = 1
  /\ IsSome(agg.res) /\ Get(agg.res).error = Some("Request timed out")
  /\ Get(agg.out).kind = "threw"

----------------------------------------------------------------------------
(* Properties of the transport core *)

Done(c) == pc[c] = "done"
Result(c) == Get(outcome[c])
ReturnedEnvelope(c) == Get(Result(c).envelope)
HasReturned(c) == Done(c) /\ Result(c).kind = "returned"
HasThrown(c) == Done(c) /\ Result(c).kind = "threw"

\* The abort that reached the catch block came from the call's own timer:
\* the timer fired while fetch was in flight and fetch rejected for it.
TimedOut(c) == Done(c) /\ aborted[c] /\ caught[c] = Some(AbortError)

\* C1: no exception escapes internalApi: every call that completes has
\* returned an envelope, and never raised to its caller.
C1_NoExceptionEscapes ==
  \A c \in Calls : Done(c) => Result(c).kind = "returned"

\* C2: every envelope internalApi returns satisfies exactly one of
\* (success = true with data present) and (success = false with errorDetails
\* present): at least one, and not both.
C2_EnvelopeExclusivity ==
  \A c \in Calls :
    HasReturned(c) =>
      LET e == ReturnedEnvelope(c)
          succ == e.success /\ IsSome(e.data)
          fail == ~e.success /\ IsSome(e.errorDetails)
      IN (succ \/ fail) /\ ~(succ /\ fail)

\* C2 witness: one call has returned a success envelope and another a
\* failure envelope.
C2_Witness ==
  \E c1, c2 \in Calls :
    /\ HasReturned(c1) /\ ReturnedEnvelope(c1).success
    /\ HasReturned(c2) /\ ~ReturnedEnvelope(c2).success

\* C3: once a call has completed, on any exit path, its timer is not armed,
\* and the timer never fires (no abort happens) after the call completed.
C3_TimerCleanup ==
  \A c \in Calls : Done(c) => timer[c] # "armed" /\ ~lateAbort[c]

\* C3 witness: a call armed its timer, awaited the network, and left by an
\* exception escaping from the catch block, with the timer disarmed; another
\* call returned a success envelope with the timer disarmed.
C3_Witness ==
  \E c1, c2 \in Calls :
    /\ HasThrown(c1) /\ timer[c1] = "cleared" /\ IsSome(caught[c1])
    /\ HasReturned(c2) /\ ReturnedEnvelope(c2).success /\ timer[c2] = "cleared"

\* C4: when the timer fires before the network call completes, the call
\* returns a failure envelope whose errorDetails has kind TIMEOUT_ERROR and
\* message "Request timed out", and which carries no HTTP status.
C4_TimeoutEnvelope ==
  \A c \in Calls :
    TimedOut(c) =>
      /\ Result(c).kind = "returned"
      /\ LET e == ReturnedEnvelope(c)
         IN /\ ~e.success
            /\ e.statusCode = None
            /\ IsSome(e.errorDetails)
            /\ Get(e.errorDetails).code = "TIMEOUT_ERROR"
            /\ Get(e.errorDetails).message = "Request timed out"

\* C12: for every non-2xx response the call returns a failure envelope whose
\* statusCode is the response status, whose errorDetails is the error that
\* createErrorFromAPIResponse builds from the parsed body (or from the body
\* {error: "HTTP {status}: {statusText}"} when the body does not parse), and
\* whose error is that error's message.
C12_NonOkEnvelope ==
  [][\A c \in Calls :
       (pc[c] = "errJson" /\ pc'[c] = "done") =>
         LET out == Get(outcome'[c])
             r == Get(req[c])
         IN /\ out.kind = "returned"
            /\ \E parsed \in {None} \cup {Some(b) : b \in ErrorBodies} :
                 LET errorData ==
                       IF IsSome(parsed) THEN Get(parsed)
                       ELSE Body(Some("HTTP " \o ToString(status[c]) \o ": "
                                        \o statusText(status[c])), None)
                     apiError ==
                       createErrorFromAPIResponse(status[c], errorData,
                         [RequestCtx(r.url, r.method) EXCEPT !.headers = r.headers])
                 IN Get(out.envelope) =
                      Envelope(FALSE, None, Some(apiError.message), Some(status[c]),
                               Some(apiError), None)]_vars

\* C13: a 2xx response whose body is not valid JSON makes the call return a
\* failure envelope with the message "Invalid JSON response from server" and
\* a NetworkError as errorDetails; it is never reported as a success.
C13_InvalidJsonEnvelope ==
  [][\A c \in Calls :
       (pc[c] = "okJson" /\ OkJsonReject(c)) =>
         LET out == Get(outcome'[c])
         IN /\ out.kind = "returned"
            /\ ~Get(out.envelope).success
            /\ Get(out.envelope).error = Some("Invalid JSON response from server")
            /\ IsSome(Get(out.envelope).errorDetails)
            /\ Get(Get(out.envelope).errorDetails).cls = "NetworkError"]_vars

\* C14: concurrent calls each own their cancellation signal and timer.  A
\* call's signal is aborted by its own timer only; a step that changes the
\* timer, the signal or the outcome of one call leaves the timer, the signal,
\* the position and the outcome of every other call as they were; and the
\* outcome of a call, once it has ended, never changes.
C14_CallsIndependent ==
  /\ [](\A d \in Calls : aborted[d] <=> timer[d] = "fired")
  /\ [][\A c \in Calls :
          /\ (timer'[c] # timer[c] \/ aborted'[c] # aborted[c]
                \/ outcome'[c] # outcome[c])
               => \A d \in Calls \ {c} :
                    /\ timer'[d] = timer[d] /\ aborted'[d] = aborted[d]
                    /\ pc'[d] = pc[d] /\ outcome'[d] = outcome[d]
          /\ Done(c) => outcome'[c] = outcome[c]]_vars

\* Two calls in flight; the timer of one has fired and aborted it, the other
\* is still waiting for its response with its timer armed.
C14_Witness ==
  \E c, d \in Calls :
    /\ c # d
    /\ pc[c] = "fetch" /\ timer[c] = "fired" /\ aborted[c]
    /\ pc[d] = "fetch" /\ timer[d] = "armed" /\ ~aborted[d]

\* redactHeader (line 34): a header whose name matches
\* /authorization|token|cookie|set-cookie/i is replaced by 'REDACTED'.
redactHeader(k, v) ==
  IF k \in {"Authorization", "Cookie", "Set-Cookie", "x-auth-token"}
    THEN "REDACTED" ELSE v

\* headersToRecord (lines 36-46): undefined for no headers, else the record
\* with every value passed through redactHeader.
headersToRecord(h) ==
  IF h = None THEN None
  ELSE Some([k \in DOMAIN Get(h) |-> redactHeader(k, Get(h)[k])])

\* The secrets a request carries: the values of its sensitive headers.
SecretsOf(r) ==
  IF r.headers = None THEN {}
  ELSE {Get(r.headers)[k] : k \in {n \in DOMAIN Get(r.headers) :
                                     redactHeader(n, Get(r.headers)[n]) = "REDACTED"}}

\* C17: no secret of the request (its Authorization header value) appears in
\* the message of the error in a returned failure envelope, and the headers
\* kept in that error's context, if any, are the redacted headers.
C17_SecretsRedacted ==
  \A c \in Calls :
    (HasReturned(c) /\ IsSome(ReturnedEnvelope(c).errorDetails)) =>
      LET e == Get(ReturnedEnvelope(c).errorDetails)
          r == Get(req[c])
      IN /\ e.message \notin SecretsOf(r)
         /\ IsSome(e.context) =>
              Get(e.context).headers \in {None, headersToRecord(r.headers)}

\* C18: the error in every failure envelope internalApi returns carries the
\* url and the method of the request in its context.
C18_ErrorCarriesRequest ==
  \A c \in Calls :
    (HasReturned(c) /\ IsSome(ReturnedEnvelope(c).errorDetails)) =>
      LET e == Get(ReturnedEnvelope(c).errorDetails)
          r == Get(req[c])
      IN /\ IsSome(e.context)
         /\ Get(e.context).url = Some(r.url)
         /\ Get(e.context).method = Some(r.method)

\* C25: a call of internalApi issues at most one network request: fetch is
\* called only when the call starts, and a call that has left the wait for
\* fetch (a response, a rejection, its timeout) only reads the body and
\* ends; it never goes back to fetch, and a call that ended stays ended.
C25_NoRetry ==
  [][\A c \in Calls :
       /\ (pc'[c] = "fetch" /\ pc[c] # "fetch") => pc[c] = "idle"
       /\ (pc[c] = "fetch" /\ pc'[c] # "fetch")
            => pc'[c] \in {"okJson", "errJson", "done"}
       /\ pc[c] \in {"okJson", "errJson"} => pc'[c] \in {pc[c], "done"}
       /\ pc[c] = "done" => pc'[c] = "done"]_vars

\* C25 witness: one call has ended with the timeout envelope after its timer
\* fired during fetch, and another with the failure envelope of a 500
\* response.
C25_Witness ==
  \E c, d \in Calls :
    /\ TimedOut(c) /\ HasReturned(c)
    /\ ReturnedEnvelope(c).error = Some("Request timed out")
    /\ HasReturned(d) /\ ReturnedEnvelope(d).statusCode = Some(500)

\* C6: the observers (and the other sinks) never change how a call ends:
\* every completed call ended as it would have, had every callback returned
\* normally; in particular no callback's exception is raised by internalApi.
C6_SinksNeverAffectSend ==
  \A c \in Calls : Done(c) => ~sinkAffected[c]

\* C7: on the thrown-exception path the timeout envelope is returned exactly
\* when the abort came from the call's own timer; every other thrown value
\* is normalized by handleUnknownError and returned in a failure envelope.
C7_ThrownPath ==
  \A c \in Calls :
    (Done(c) /\ IsSome(caught[c])) =>
      LET e == Get(caught[c])
          r == Get(req[c])
      IN IF TimedOut(c)
           THEN Result(c) = Returned(TimeoutEnvelope(r, e))
           ELSE Result(c) = Returned(NetworkEnvelope(r, e))

\* C8: a call whose network call never resolves has, once its timer has
\* fired and the abort has been delivered, returned a failure envelope to
\* its caller.
C8_TimeoutReturnsFailure ==
  \A c \in Calls :
    TimedOut(c) => HasReturned(c) /\ ~ReturnedEnvelope(c).success

----------------------------------------------------------------------------
(* loginCallback: src/src/login/index.ts 89-179 *)

\* The PublicKeyCredential arguments of the model, as far as loginCallback
\* reads them: id, whether `response` is present, type.
Credentials ==
  {None}
    \cup {Some([id |-> id, hasResponse |-> hasResponse, type |-> type]) :
            id \in {"", "credential-id-1", "credential-id-2"},
            hasResponse \in BOOLEAN, type \in {"public-key", "password"}}

\* s.substring(0, 8) on the strings of the model.
substring8(s) ==
  CASE s = "session-id-1" -> "session-"
    [] s = "session-id-2" -> "session-"
    [] s = "credential-id-1" -> "credenti"
    [] s = "credential-id-2" -> "credenti"
    [] s = "valid-access-token-12345" -> "valid-ac"
    [] OTHER -> s

\* The envelopes internalApi can return to loginCallback.  response.data of
\* a 2xx answer is null, or an object with optional tokens.
LoginEnvelopes(sessionId) ==
  LET r == [url |-> "/login/callback", method |-> "POST", body |-> "json",
            headers |-> Some([XSessionId |-> sessionId])]
      tokens(kind, accessToken, refreshToken) ==
        [kind |-> kind, accessToken |-> accessToken, refreshToken |-> refreshToken]
  IN {HttpFailureEnvelope(r, st, parsed) :
        st \in {400, 401, 403, 404, 500},
        parsed \in {None, Some(Body(Some("Invalid credentials"), None)),
                    Some(Body(None, None))}}
       \cup {TimeoutEnvelope(r, AbortError)}
       \cup {NetworkEnvelope(r, e) : e \in FetchRejections}
       \cup {SuccessEnvelope(d) :
               d \in {tokens("null", None, None), tokens("object", None, None),
                      tokens("object", Some("access"), None),
                      tokens("object", Some("access"), Some("refresh"))}}

\* How an async consumer ends: its promise resolves with a value or rejects
\* with the value thrown.
Resolve(v) == [kind |-> "returned", thrown |-> None, value |-> Some(v)]
Reject(e) == [kind |-> "threw", thrown |-> Some(e), value |-> None]

LoginCtx(sessionId) == [EmptyCtx EXCEPT !.sessionId = Some(substring8(sessionId))]

\* The body of the try block after `await api(...)` (lines 119-160): the
\* value it throws, or the tokens it returns.
loginCallbackTry(credential, sessionId, response) ==
  IF ~response.success
    THEN IF IsSome(response.errorDetails) /\ isEaseSDKError(Get(response.errorDetails))
           THEN Reject(Get(response.errorDetails))
         ELSE IF response.statusCode = Some(401)
           THEN Reject(AuthenticationError("Authentication failed: invalid credentials",
                                               "INVALID_CREDENTIALS",
                                               Some(LoginCtx(sessionId))))
         ELSE IF response.statusCode = Some(400)
           THEN Reject(WebAuthnError(IF Truthy(response.error) THEN Get(response.error)
                                         ELSE "Invalid WebAuthn assertion",
                                         "PASSKEY_AUTHENTICATION_FAILED",
                                         Some(LoginCtx(sessionId))))
         ELSE Reject(AuthenticationError(IF Truthy(response.error) THEN Get(response.error)
                                             ELSE "Login authentication failed",
                                             "AUTHENTICATION_FAILED",
                                             Some(LoginCtx(sessionId))))
  ELSE LET data == Get(response.data)
       IN IF data.kind = "null" \/ ~Truthy(data.accessToken) \/ ~Truthy(data.refreshToken)
            THEN Reject(AuthenticationError(
                              "Invalid response: missing authentication tokens",
                              "AUTHENTICATION_FAILED", Some(LoginCtx(sessionId))))
            ELSE Resolve([accessToken |-> Get(data.accessToken),
                                refreshToken |-> Get(data.refreshToken)])

\* catch (error) of loginCallback (lines 163-178).
loginCallbackCatch(credential, sessionId, error) ==
  IF isEaseSDKError(error) THEN Reject(error)
  ELSE Reject(handleUnknownError(error,
         [EmptyCtx EXCEPT !.operation = Some("loginCallback"),
                          !.sessionId = Some(substring8(sessionId)),
                          !.credentialId = Some(substring8(credential.id))]))

loginCallback(credential, sessionId, response) ==
  LET tried == loginCallbackTry(credential, sessionId, response)
  IN IF tried.kind = "threw"
       THEN loginCallbackCatch(credential, sessionId, Get(tried.thrown))
       ELSE tried

\* loginCallback without the check of the credential's shape (lines
\* 99-106): a credential that is present is sent as it is.
LoginCallSkipsFormatCheck(credential, sessionId) ==
  /\ login.pc = "idle"
  /\ LET started == [login EXCEPT !.credential = credential, !.sessionId = sessionId]
         invalid(message, field, value) ==
           [started EXCEPT !.pc = "done",
              !.out = Some(Reject(ValidationError(message, Some(field), value)))]
     IN login' =
          IF credential = None
            THEN invalid("WebAuthn credential is required", "credential", None)
          ELSE IF sessionId = ""
            THEN invalid("Session ID is required and must be a string", "sessionId",
                         Some(sessionId))
          ELSE [started EXCEPT !.pc = "awaiting", !.sends = login.sends + 1]
  /\ UNCHANGED <<observers, transportVars, agg, addresses, conn, errs, joining, log, retrying, notifying>>

\* loginCallback up to the await: the input validation (lines 91-106), then
\* the request.
LoginCall(credential, sessionId) ==
  /\ login.pc = "idle"
  /\ LET started == [login EXCEPT !.credential = credential, !.sessionId = sessionId]
         invalid(message, field, value) ==
           [started EXCEPT !.pc = "done",
              !.out = Some(Reject(ValidationError(message, Some(field), value)))]
     IN login' =
          IF credential = None
            THEN invalid("WebAuthn credential is required", "credential", None)
          ELSE IF sessionId = ""
            THEN invalid("Session ID is required and must be a string", "sessionId",
                         Some(sessionId))
          ELSE IF Get(credential).id = "" \/ ~Get(credential).hasResponse
                    \/ Get(credential).type # "public-key"
            THEN invalid("Invalid WebAuthn credential format", "credential",
                         Some(Get(credential).type))
          ELSE [started EXCEPT !.pc = "awaiting", !.sends = login.sends + 1]
  /\ UNCHANGED <<observers, transportVars, agg, addresses, conn, errs, joining, log, retrying, notifying>>

\* `await api(...)` returns an envelope.
LoginSettle ==
  /\ login.pc = "awaiting"
  /\ \E res \in LoginEnvelopes(login.sessionId) :
       login' = [login EXCEPT
         !.pc = "done", !.res = Some(res),
         !.out = Some(loginCallback(Get(login.credential), login.sessionId, res))]
  /\ UNCHANGED <<observers, transportVars, agg, addresses, conn, errs, joining, log, retrying, notifying>>

\* `await api(...)` rejects: an exception left internalApi.
LoginApiThrows ==
  /\ login.pc = "awaiting"
  /\ \E v \in ObserverThrows :
       login' = [login EXCEPT
         !.pc = "done",
         !.out = Some(loginCallbackCatch(Get(login.credential), login.sessionId, v))]
  /\ UNCHANGED <<observers, transportVars, agg, addresses, conn, errs, joining, log, retrying, notifying>>

NextLogin ==
  \/ \E credential \in Credentials, sessionId \in {"", "session-id-1", "session-id-2"} :
       LoginCall(credential, sessionId)
  \/ LoginSettle
  \/ LoginApiThrows

SpecLogin == Init /\ [][NextLogin]_vars

\* C9: when the response to the login-callback request has status 401,
\* loginCallback raises an AuthenticationError with code INVALID_CREDENTIALS;
\* with status 400 a WebAuthnError with code PASSKEY_AUTHENTICATION_FAILED;
\* with any other failure status an AuthenticationError with code
\* AUTHENTICATION_FAILED.
C9_LoginErrorMapping ==
  (login.pc = "done" /\ IsSome(login.res) /\ ~Get(login.res).success
     /\ IsSome(Get(login.res).statusCode)) =>
    LET st == Get(Get(login.res).statusCode)
        out == Get(login.out)
        e == Get(out.thrown)
    IN /\ out.kind = "threw"
       /\ IF st = 401
            THEN e.cls = "AuthenticationError" /\ e.code = "INVALID_CREDENTIALS"
          ELSE IF st = 400
            THEN e.cls = "WebAuthnError" /\ e.code = "PASSKEY_AUTHENTICATION_FAILED"
          ELSE e.cls = "AuthenticationError" /\ e.code = "AUTHENTICATION_FAILED"

----------------------------------------------------------------------------
(* getAddresses: src/src/transaction/index.ts 35-57, and the same function  *)
(* as src/unnamed/part_014 23-50 has it.                                    *)

Address(address, derivationPath, coin) ==
  [address |-> address, derivationPath |-> derivationPath, coin |-> coin]

\* The address arrays a backend may answer with.
AddressLists ==
  LET records == {Address(a, "path", c) : a \in {"addr1", "addr2", "addr3"},
                                          c \in {"EASE", "BTC"}}
  IN UNION {[1..n -> records] : n \in 0..MaxAddresses}

\* a.localeCompare(b) on the strings of the model: negative, zero or positive.
localeCompare(a, b) ==
  LET rank(x) == CASE x = "addr1" -> 1 [] x = "addr2" -> 2 [] OTHER -> 3
  IN rank(a) - rank(b)

\* The comparator part_014 passes to sort (lines 41-45).
compareAddresses(a, b) ==
  IF a.coin = "EASE" /\ b.coin # "EASE" THEN -1
  ELSE IF b.coin = "EASE" /\ a.coin # "EASE" THEN 1
  ELSE localeCompare(a.address, b.address)

\* Array.prototype.sort with a comparator: a stable sort.
RECURSIVE insertSorted(_, _)
insertSorted(list, x) ==
  IF Len(list) = 0 THEN <<x>>
  ELSE IF compareAddresses(x, list[Len(list)]) >= 0 THEN Append(list, x)
  ELSE Append(insertSorted(SubSeq(list, 1, Len(list) - 1), x), list[Len(list)])

RECURSIVE sort(_)
sort(list) ==
  IF Len(list) = 0 THEN <<>>
  ELSE insertSorted(sort(SubSeq(list, 1, Len(list) - 1)), list[Len(list)])

\* validateAccessToken (lines 19-23): the ValidationError it throws, or None.
\* The constructor is called as (ErrorCode.INVALID_INPUT, text): the code is
\* the message and the text is the field.
validateAccessToken(token) ==
  IF token = ""
    THEN Some(ValidationError("INVALID_INPUT",
                              Some("Access token must be a non-empty string."), None))
    ELSE None

\* The envelopes internalApi can return to getAddresses.  res.data of a 2xx
\* answer is null, an array of addresses or another object.
AddressEnvelopes(accessToken) ==
  LET r == [url |-> "/transaction/keys/addresses", method |-> "GET", body |-> "null",
            headers |-> Some([Authorization |-> "Bearer " \o accessToken])]
      data(kind, items) == [kind |-> kind, items |-> items]
  IN FailureEnvelopes(r)
       \cup {SuccessEnvelope(data("null", <<>>)), SuccessEnvelope(data("object", <<>>))}
       \cup {SuccessEnvelope(data("array", l)) : l \in AddressLists}

\* catch (error) of getAddresses: handleUnknownError(error, {api}).
getAddressesCatch(error) ==
  Reject(handleUnknownError(error, [EmptyCtx EXCEPT !.api = Some("getAddresses")]))

\* getAddresses after `await api(...)`.
getAddresses(build, res) ==
  IF ~res.success \/ Get(res.data).kind = "null"
    THEN getAddressesCatch(
           EaseSDKError("API_ERROR",
                        IF Truthy(res.error) THEN Get(res.error)
                        ELSE "Unknown error fetching addresses",
                        None, None, None))
  ELSE IF Get(res.data).kind # "array"
    THEN getAddressesCatch(
           EaseSDKError("API_ERROR", "Invalid data format for addresses.",
                        None, None, None))
  ELSE IF build = "part_014"
    THEN Resolve(sort(Get(res.data).items))
  ELSE Resolve(Get(res.data).items)

AddressesCall(build, accessToken) ==
  /\ addresses.pc = "idle"
  /\ LET started == [addresses EXCEPT !.build = build, !.accessToken = accessToken]
         invalid == validateAccessToken(accessToken)
     IN addresses' =
          IF IsSome(invalid)
            THEN [started EXCEPT !.pc = "done", !.out = Some(Reject(Get(invalid)))]
            ELSE [started EXCEPT !.pc = "awaiting"]
  /\ UNCHANGED <<observers, transportVars, agg, login, conn, errs, joining, log, retrying, notifying>>

AddressesSettle ==
  /\ addresses.pc = "awaiting"
  /\ \E res \in AddressEnvelopes(addresses.accessToken) :
       addresses' = [addresses EXCEPT
         !.pc = "done", !.res = Some(res),
         !.out = Some(getAddresses(addresses.build, res))]
  /\ UNCHANGED <<observers, transportVars, agg, login, conn, errs, joining, log, retrying, notifying>>

AddressesApiThrows ==
  /\ addresses.pc = "awaiting"
  /\ \E v \in ObserverThrows :
       addresses' = [addresses EXCEPT !.pc = "done", !.out = Some(getAddressesCatch(v))]
  /\ UNCHANGED <<observers, transportVars, agg, login, conn, errs, joining, log, retrying, notifying>>

NextAddresses ==
  \/ \E build \in {"transaction/index.ts", "part_014"}, accessToken \in {"", "test-token"} :
       AddressesCall(build, accessToken)
  \/ AddressesSettle
  \/ AddressesApiThrows

SpecAddresses == Init /\ [][NextAddresses]_vars

\* EASE addresses first, and within each group ascending address strings.
Ordered(list) ==
  \A i, j \in 1..Len(list) :
    i < j => /\ (list[j].coin = "EASE" => list[i].coin = "EASE")
             /\ ((list[i].coin = "EASE") = (list[j].coin = "EASE")
                   => localeCompare(list[i].address, list[j].address) <= 0)

\* C10: the address list getAddresses returns is ordered: the addresses of
\* the native coin (EASE) come first, and otherwise addresses appear in
\* lexicographic order of their address string.
C10_AddressesOrdered ==
  (addresses.pc = "done" /\ Get(addresses.out).kind = "returned") =>
    Ordered(Get(Get(addresses.out).value))

----------------------------------------------------------------------------
(* connectToWebSocket: src/src/index.ts 265-335.  conn.ws is the list of   *)
(* WebSockets created so far, each "connecting", "open" or "closed";       *)
(* conn.returned is the position of the socket the promise resolved with   *)
(* (the one whose close method was replaced), 0 while there is none;       *)
(* conn.settlements lists the calls of resolve and reject made so far.     *)

MaxAttemptsMessage == "WebSocket reconnection failed after maximum attempts."

\* connectToWebSocket(accessToken, handlers, reconnectionConfig) (lines
\* 265-281, 333): the configuration is read and connect() is called; it
\* passes the isClosed check and awaits getWSToken.
connectToWebSocket(enabled, maxAttempts) ==
  /\ conn.pc = "idle"
  /\ conn' = [conn EXCEPT !.pc = "running", !.enabled = enabled,
                          !.maxAttempts = maxAttempts, !.tokenRequests = 1]
  /\ UNCHANGED <<observers, transportVars, agg, login, addresses, errs, joining, log, retrying, notifying>>

\* `await getWSToken(accessToken)` resolves and `new WebSocket(url)` is
\* created with its listeners (lines 283-306).
TokenResolve ==
  /\ conn.tokenRequests > 0
  /\ Len(conn.ws) < MaxSockets
  /\ conn' = [conn EXCEPT !.tokenRequests = @ - 1,
                          !.ws = Append(@, "connecting")]
  /\ UNCHANGED <<observers, transportVars, agg, login, addresses, errs, joining, log, retrying, notifying>>

\* The catch block of connect keeping the failure to itself: neither onError
\* nor reject is called.
TokenRejectUnreported ==
  /\ conn.tokenRequests > 0
  /\ conn' = [conn EXCEPT !.tokenRequests = @ - 1]
  /\ UNCHANGED <<observers, transportVars, agg, login, addresses, errs, joining, log, retrying, notifying>>

\* getWSToken throws: the catch block of connect (lines 324-330).
TokenReject ==
  /\ conn.tokenRequests > 0
  /\ conn' = [conn EXCEPT !.tokenRequests = @ - 1,
                          !.onError = Append(@, "getWSToken failed"),
                          !.promise = IF @ = "pending" THEN "rejected" ELSE @,
                          !.settlements = IF conn.promise = "pending"
                                            THEN Append(@, <<"reject", "getWSToken failed">>)
                                            ELSE @]
  /\ UNCHANGED <<observers, transportVars, agg, login, addresses, errs, joining, log, retrying, notifying>>

\* The 'open' listener (lines 287-302).
SocketOpen(i) ==
  /\ conn.ws[i] = "connecting"
  /\ conn' = [conn EXCEPT !.ws[i] = "open", !.reconnectionAttempts = 0,
                          !.sinceOpen = 0,
                          !.promise = IF @ = "pending" THEN "resolved" ELSE @,
                          !.returned = IF conn.promise = "pending" THEN i ELSE @,
                          !.settlements = IF conn.promise = "pending"
                                            THEN Append(@, <<"resolve", i>>)
                                            ELSE @]
  /\ UNCHANGED <<observers, transportVars, agg, login, addresses, errs, joining, log, retrying, notifying>>

\* The 'close' listener without its budget: every unrequested close
\* schedules a reconnection.
SocketCloseUnbounded(i) ==
  /\ conn.ws[i] \in {"connecting", "open"}
  /\ conn' =
       IF conn.isClosed \/ ~conn.enabled
         THEN [conn EXCEPT !.ws[i] = "closed"]
         ELSE [conn EXCEPT !.ws[i] = "closed", !.reconnectionAttempts = @ + 1,
                           !.timers = @ + 1]
  /\ UNCHANGED <<observers, transportVars, agg, login, addresses, errs, joining, log, retrying, notifying>>

\* The 'close' listener (lines 306-323) as the socket closes without the
\* caller having asked for it: the connection failed or the peer closed it.
SocketClose(i) ==
  /\ conn.ws[i] \in {"connecting", "open"}
  /\ conn' =
       IF conn.isClosed \/ ~conn.enabled
         THEN [conn EXCEPT !.ws[i] = "closed"]
       ELSE IF conn.reconnectionAttempts < conn.maxAttempts
         THEN [conn EXCEPT !.ws[i] = "closed", !.reconnectionAttempts = @ + 1,
                           !.timers = @ + 1]
       ELSE [conn EXCEPT !.ws[i] = "closed",
                         !.onError = Append(@, MaxAttemptsMessage),
                         !.promise = IF @ = "pending" THEN "rejected" ELSE @,
                         !.settlements = IF conn.promise = "pending"
                                           THEN Append(@, <<"reject", MaxAttemptsMessage>>)
                                           ELSE @]
  /\ UNCHANGED <<observers, transportVars, agg, login, addresses, errs, joining, log, retrying, notifying>>

\* setTimeout(connect, delay) fires: connect() returns at once when isClosed,
\* else it awaits getWSToken (lines 279-283, 313).
ReconnectTimerFire ==
  /\ conn.timers > 0
  /\ conn' = IF conn.isClosed
               THEN [conn EXCEPT !.timers = @ - 1]
               ELSE [conn EXCEPT !.timers = @ - 1, !.tokenRequests = @ + 1,
                                 !.sinceOpen = @ + 1]
  /\ UNCHANGED <<observers, transportVars, agg, login, addresses, errs, joining, log, retrying, notifying>>

\* The caller invokes close() on the WebSocket the promise resolved with: the
\* replaced close method sets isClosed and calls the original close (lines
\* 294-299); the 'close' listener then finds isClosed set and returns.
close ==
  /\ conn.promise = "resolved"
  /\ ~conn.isClosed
  /\ conn' = [conn EXCEPT !.isClosed = TRUE, !.ws[conn.returned] = "closed"]
  /\ UNCHANGED <<observers, transportVars, agg, login, addresses, errs, joining, log, retrying, notifying>>

NextWebSocket ==
  \/ \E enabled \in BOOLEAN, maxAttempts \in 0..MaxAttemptsConfig :
       connectToWebSocket(enabled, maxAttempts)
  \/ TokenResolve
  \/ TokenReject
  \/ \E i \in 1..Len(conn.ws) : SocketOpen(i)
  \/ \E i \in 1..Len(conn.ws) : SocketClose(i)
  \/ ReconnectTimerFire
  \/ close

SpecWebSocket == Init /\ [][NextWebSocket]_vars

\* C15: once the caller has invoked close() on the WebSocket returned by
\* connectToWebSocket, no further WebSocket is created, whether a
\* reconnection timer or a token request was pending at that moment or not.
C15_NoSocketAfterClose ==
  [][conn.isClosed => Len(conn'.ws) = Len(conn.ws)]_vars

\* C16: connectToWebSocket makes at most maxAttempts reconnection attempts
\* without a successful open in between (conn.sinceOpen counts the connect()
\* runs started by a reconnection timer since the last open).  When a
\* connection closes with that budget used up, onError is invoked with the
\* maximum-attempts message and nothing is scheduled; from then on no timer,
\* token request or live socket remains.
C16_ReconnectBudget ==
  /\ [](/\ conn.sinceOpen <= conn.maxAttempts
        /\ (\E k \in 1..Len(conn.onError) : conn.onError[k] = MaxAttemptsMessage)
             => /\ conn.timers = 0 /\ conn.tokenRequests = 0
                /\ \A i \in 1..Len(conn.ws) : conn.ws[i] = "closed")
  /\ [][\A i \in 1..Len(conn.ws) :
          (/\ conn.ws[i] # "closed" /\ conn'.ws[i] = "closed"
           /\ ~conn'.isClosed /\ conn.enabled /\ conn.sinceOpen = conn.maxAttempts)
            => /\ conn'.onError = Append(conn.onError, MaxAttemptsMessage)
               /\ conn'.timers = conn.timers
               /\ conn'.tokenRequests = conn.tokenRequests]_vars

\* With maxAttempts = 2: the first socket and the sockets of both
\* reconnection attempts have closed and the maximum-attempts error was
\* reported.
C16_Witness ==
  /\ conn.maxAttempts = 2 /\ Len(conn.ws) = 3 /\ conn.sinceOpen = 2
  /\ conn.onError = <<MaxAttemptsMessage>>

----------------------------------------------------------------------------
(* The error utilities used on their own: src/src/utils/errors.ts *)

\* How many times handleUnknownError is applied in a row.
MaxNormalize == 3

\* The statuses classified: every integer of -MaxStatus..MaxStatus.
MaxStatus == 600

\* Values that are thrown and caught: errors of the SDK's classes, built as
\* the SDK builds them, other Error objects, and a value that is no Error.
ThrownValues ==
  {NetworkError("Request timed out", CauseOf(AbortError),
                Some(RequestCtx("/wallet/balance", "GET"))),
   AuthenticationError("Invalid or expired access token", "UNAUTHORIZED", None),
   ValidationError("Access token is required and must be a string",
                   Some("accessToken"), None),
   WebAuthnError("Passkey authentication failed", "PASSKEY_AUTHENTICATION_FAILED",
                 Some([EmptyCtx EXCEPT !.sessionId = Some("session-")])),
   createErrorFromAPIResponse(404, Body(None, Some("Not found")),
                              RequestCtx("/login/callback", "POST")),
   EaseSDKError("UNKNOWN_ERROR", "An unknown error occurred", None, None, None),
   JsError("Error", "Network request failed"),
   AbortError,
   SyntaxError,
   JsPlain("string error")}

\* The contexts handleUnknownError is called with.
Contexts ==
  {EmptyCtx,
   RequestCtx("/login/callback", "POST"),
   [EmptyCtx EXCEPT !.operation = Some("getWSToken")]}

\* A value is thrown and caught: it is the only error object so far.
Throw ==
  /\ errs.pc = "idle"
  /\ \E v \in ThrownValues :
       errs' = [errs EXCEPT !.pc = "caught", !.heap = <<v>>]
  /\ UNCHANGED <<observers, transportVars, agg, login, addresses, conn, joining, log, retrying, notifying>>

\* handleUnknownError(error, context) (lines 209-231), applied to the value
\* caught and then to what the previous application returned.  `return
\* error` (line 211) returns the reference it was given; every other result
\* is a new object (`new EaseSDKError`, lines 215 and 223).
Normalize ==
  /\ errs.pc = "caught"
  /\ errs.times < MaxNormalize
  /\ \E context \in Contexts :
       LET ref == IF errs.times = 0 THEN 1 ELSE errs.result
           error == errs.heap[ref]
           out == handleUnknownError(error, context)
       IN errs' = [errs EXCEPT
                     !.times = @ + 1,
                     !.context = Some(context),
                     !.heap = IF out = error THEN @ ELSE Append(@, out),
                     !.result = IF out = error THEN ref ELSE Len(errs.heap) + 1]
  /\ UNCHANGED <<observers, transportVars, agg, login, addresses, conn, joining, log, retrying, notifying>>

\* mapHTTPStatusToErrorCode(status) for an integer status.
Classify ==
  /\ errs.pc \in {"idle", "classified"}
  /\ \E s \in (-MaxStatus)..MaxStatus :
       errs' = [errs EXCEPT !.pc = "classified", !.status = Some(s),
                            !.code = mapHTTPStatusToErrorCode(s)]
  /\ UNCHANGED <<observers, transportVars, agg, login, addresses, conn, joining, log, retrying, notifying>>

\* createErrorFromAPIResponse(statusCode, responseData, context) (lines
\* 186-203) for a parsed body whose `error` and `message` members are each
\* absent, an empty string or a text.
BuildError ==
  /\ errs.pc = "idle"
  /\ \E statusCode \in {400, 401, 404, 418, 500},
        err \in {None, Some(""), Some("Invalid request")},
        msg \in {None, Some(""), Some("Bad request")},
        context \in Contexts :
       errs' = [errs EXCEPT
                  !.pc = "built",
                  !.status = Some(statusCode),
                  !.body = Some(Body(err, msg)),
                  !.context = Some(context),
                  !.heap = <<createErrorFromAPIResponse(statusCode, Body(err, msg),
                                                        context)>>]
  /\ UNCHANGED <<observers, transportVars, agg, login, addresses, conn, joining, log, retrying, notifying>>

NextErrors ==
  \/ Throw
  \/ Normalize
  \/ Classify
  \/ BuildError

SpecErrors == Init /\ [][NextErrors]_vars

\* C19: handleUnknownError returns an error of the SDK's classes unchanged,
\* as the very object it was given, whatever context is supplied: no new
\* error object is made and the object keeps its class, code, message and
\* context; and once it has returned an error, further applications return
\* that same object (no re-wrapping).
C19_NormalizeIdempotent ==
  /\ []((errs.times >= 1 /\ isEaseSDKError(errs.heap[1]))
          => errs.result = 1 /\ Len(errs.heap) = 1)
  /\ [][(errs.times >= 1 /\ errs'.times = errs.times + 1)
          => errs'.result = errs.result /\ errs'.heap = errs.heap]_vars
  /\ [][errs.pc = "caught" => errs'.heap[1] = errs.heap[1]]_vars

\* C19 witness: a NetworkError built for one request has been passed through
\* handleUnknownError MaxNormalize times, last with the context of another
\* request, and is still the only error object.
C19_Witness ==
  /\ errs.times = MaxNormalize
  /\ errs.heap = <<NetworkError("Request timed out", CauseOf(AbortError),
                                Some(RequestCtx("/wallet/balance", "GET")))>>
  /\ errs.result = 1
  /\ errs.context = Some(RequestCtx("/login/callback", "POST"))

\* C20: mapHTTPStatusToErrorCode maps every integer status to one member of
\* ErrorCode: 400 to INVALID_INPUT, 401 to UNAUTHORIZED, 403 to
\* AUTHENTICATION_FAILED, 404 to API_ERROR, 408 and 504 to TIMEOUT_ERROR, 429
\* to RATE_LIMIT_ERROR, 500, 502 and 503 to SERVICE_UNAVAILABLE, and every
\* other status to API_ERROR.
C20_ClassifyTable ==
  errs.pc = "classified" =>
    LET s == Get(errs.status)
    IN /\ errs.code \in ErrorCode
       /\ (s = 400 => errs.code = "INVALID_INPUT")
       /\ (s = 401 => errs.code = "UNAUTHORIZED")
       /\ (s = 403 => errs.code = "AUTHENTICATION_FAILED")
       /\ (s = 404 => errs.code = "API_ERROR")
       /\ (s = 408 => errs.code = "TIMEOUT_ERROR")
       /\ (s = 429 => errs.code = "RATE_LIMIT_ERROR")
       /\ (s \in {500, 502, 503} => errs.code = "SERVICE_UNAVAILABLE")
       /\ (s = 504 => errs.code = "TIMEOUT_ERROR")
       /\ (s \notin {400, 401, 403, 404, 408, 429, 500, 502, 503, 504}
             => errs.code = "API_ERROR")

\* C20 witness: status 504 has been classified as TIMEOUT_ERROR.
C20_Witness ==
  errs.pc = "classified" /\ errs.status = Some(504) /\ errs.code = "TIMEOUT_ERROR"

\* C21: for a thrown value that is not of the SDK's classes,
\* handleUnknownError makes a new EaseSDKError of code UNKNOWN_ERROR.  For an
\* Error object its message is the original message and its cause the
\* original error; for any other value its message is "An unknown error
\* occurred", it has no cause, and the value is in its context under
\* originalError next to the context supplied.
C21_UnknownWrapped ==
  (errs.times >= 1 /\ ~isEaseSDKError(errs.heap[1])) =>
    /\ Len(errs.heap) = 2
    /\ LET error == errs.heap[1]
           out == errs.heap[2]
       IN /\ out.cls = "EaseSDKError"
          /\ out.code = "UNKNOWN_ERROR"
          /\ out.statusCode = None
          /\ IF error.cls # "NonError"
               THEN /\ out.message = error.message
                    /\ out.cause = Some([cls |-> error.cls, name |-> error.name,
                                         message |-> error.message])
                    /\ IsSome(out.context)
                    /\ Get(out.context).originalError = None
               ELSE /\ out.message = "An unknown error occurred"
                    /\ out.cause = None
                    /\ IsSome(out.context)
                    /\ Get(out.context).originalError = Some(error.message)
                    /\ \E context \in Contexts :
                         Get(out.context) =
                           [context EXCEPT !.originalError = Some(error.message)]

\* C21 witness: a SyntaxError has been wrapped with its message and itself as
\* cause.
C21_Witness ==
  /\ errs.times >= 1
  /\ errs.heap[1] = SyntaxError
  /\ Len(errs.heap) = 2
  /\ errs.heap[2].code = "UNKNOWN_ERROR"
  /\ errs.heap[2].message = "Unexpected token"
  /\ errs.heap[2].cause = CauseOf(SyntaxError)

\* What C22 says of everything but the message: an EaseSDKError whose code
\* is the one of the status, whose statusCode is the status and whose
\* context is the context supplied plus the parsed body under responseData.
BuiltFrom(out, statusCode, responseData, context) ==
  /\ out.cls = "EaseSDKError"
  /\ out.code = (CASE statusCode = 400 -> "INVALID_INPUT"
                   [] statusCode = 401 -> "UNAUTHORIZED"
                   [] statusCode = 500 -> "SERVICE_UNAVAILABLE"
                   [] OTHER -> "API_ERROR")
  /\ out.statusCode = Some(statusCode)
  /\ out.cause = None
  /\ out.context = Some([context EXCEPT !.responseData = Some(responseData)])

\* C22 as stated: the message of the error createErrorFromAPIResponse builds
\* is the body's `error` member if it is present, else its `message` member
\* if that is present, else "HTTP {status} error"; code, statusCode and
\* context as in BuiltFrom.
C22_MessageIfPresent ==
  errs.pc = "built" =>
    LET out == errs.heap[1]
        statusCode == Get(errs.status)
        responseData == Get(errs.body)
    IN /\ BuiltFrom(out, statusCode, responseData, Get(errs.context))
       /\ out.message =
            (IF IsSome(responseData.error) THEN Get(responseData.error)
             ELSE IF IsSome(responseData.message) THEN Get(responseData.message)
             ELSE "HTTP " \o ToString(statusCode) \o " error")

\* C22 amended: the message is the body's `error` member if it is present
\* and not empty, else its `message` member if that is present and not
\* empty, else "HTTP {status} error"; code, statusCode and context as in
\* BuiltFrom.
C22_MessageIfNonEmpty ==
  errs.pc = "built" =>
    LET out == errs.heap[1]
        statusCode == Get(errs.status)
        responseData == Get(errs.body)
        has(member) == IsSome(member) /\ Get(member) # ""
    IN /\ BuiltFrom(out, statusCode, responseData, Get(errs.context))
       /\ out.message =
            (IF has(responseData.error) THEN Get(responseData.error)
             ELSE IF has(responseData.message) THEN Get(responseData.message)
             ELSE "HTTP " \o ToString(statusCode) \o " error")

\* C22 witness: a 404 body {error: "", message: "Bad request"} has been turned
\* into an API_ERROR with the message "Bad request".
C22_Witness ==
  /\ errs.pc = "built"
  /\ errs.status = Some(404)
  /\ errs.body = Some(Body(Some(""), Some("Bad request")))
  /\ errs.heap[1].code = "API_ERROR"
  /\ errs.heap[1].message = "Bad request"

(* join and joinCallback: src/src/join/index.ts 13-223,                    *)
(* src/src/config.d.ts 36-303                                              *)

\* The source holds two versions of the module: `join(accessToken)` and
\* `joinCallback(credential, accessToken, sessionId)` of join/index.ts, and
\* `join(accessToken, displayName)` and the eight-argument joinCallback of
\* config.d.ts.  `build` says which one is built.
JoinBuilds == {"join/index.ts", "config.d.ts"}

\* s.trim().length on the access tokens of the model.
trimLength(s) ==
  CASE s = "" -> 0
    [] s = "   short   " -> 5
    [] s = "valid-access-token-12345" -> 24

\* The envelopes internalApi can return to join and joinCallback.  A 2xx
\* answer carries response.data (null, or an object with optional members)
\* and the response headers, where headers.get('X-Session-Id') is null when
\* the header is absent.
JoinEnvelopes(fn, accessToken) ==
  LET r == [url |-> IF fn = "join" THEN "/join/options" ELSE "/join/callback",
            method |-> "POST", body |-> "json",
            headers |-> Some([Authorization |-> "Bearer " \o accessToken])]
      options(kind, publicKey) == [kind |-> kind, publicKey |-> publicKey]
      tokens(kind, accessToken2, refreshToken, recipientData) ==
        [kind |-> kind, accessToken |-> accessToken2, refreshToken |-> refreshToken,
         recipientData |-> recipientData]
      answered(d, h) == [SuccessEnvelope(d) EXCEPT !.headers = h]
  IN {HttpFailureEnvelope(r, st, parsed) :
        st \in {400, 401, 500},
        parsed \in {None, Some(Body(Some("Passkey rejected"), None))}}
       \cup {TimeoutEnvelope(r, AbortError)}
       \cup (IF fn = "join"
               THEN {answered(d, h) :
                       d \in {options("null", None), options("object", None),
                              options("object", Some("creation-options"))},
                       h \in {None, Some([XSessionId |-> None]),
                              Some([XSessionId |-> Some("")]),
                              Some([XSessionId |-> Some("session-id-1")])}}
               ELSE {answered(d, Some([XSessionId |-> None])) :
                       d \in {tokens("null", None, None, None),
                              tokens("object", Some("access"), None, None),
                              tokens("object", Some("access"), Some("refresh"), None),
                              tokens("object", Some("access"), Some("refresh"),
                                     Some("recipient-data"))}})

\* The context object the join functions attach to the errors they create.
JoinCtx(build, accessToken, displayName) ==
  [EmptyCtx EXCEPT !.tokenPrefix = Some(substring8(accessToken)),
                   !.displayName = IF build = "config.d.ts" THEN Some(displayName)
                                   ELSE None]

\* catch (error) of join (join/index.ts 92-104, config.d.ts 124-137).
joinCatch(build, accessToken, displayName, error) ==
  IF isEaseSDKError(error) THEN Reject(error)
  ELSE Reject(handleUnknownError(error,
         [JoinCtx(build, accessToken, displayName) EXCEPT !.operation = Some("join")]))

\* join after `await api(...)` returned `response` (join/index.ts 35-104,
\* config.d.ts 60-137).
join(build, accessToken, displayName, response) ==
  LET ctx == Some(JoinCtx(build, accessToken, displayName))
      failed(message) == Reject(WebAuthnError(message, "PASSKEY_CREATION_FAILED", ctx))
      data == Get(response.data)
      sessionId == IF IsSome(response.headers) THEN Get(response.headers).XSessionId
                   ELSE None
      tried ==
        IF ~response.success
          THEN IF IsSome(response.errorDetails) /\ isEaseSDKError(Get(response.errorDetails))
                 THEN Reject(Get(response.errorDetails))
               ELSE IF response.statusCode = Some(401)
                 THEN Reject(AuthenticationError("Invalid or expired access token",
                                                 "UNAUTHORIZED", ctx))
               ELSE failed(IF Truthy(response.error) THEN Get(response.error)
                           ELSE "Failed to get passkey creation options")
        ELSE IF data.kind = "null" THEN failed("Invalid response: missing join data")
        ELSE IF ~Truthy(data.publicKey)
          THEN failed("Invalid response: missing WebAuthn creation options")
        ELSE IF ~Truthy(sessionId)
          THEN IF build = "config.d.ts"
                 THEN failed("Invalid response: missing session ID")
                 ELSE Resolve([publicKey |-> Get(data.publicKey), sessionId |-> ""])
        ELSE Resolve([publicKey |-> Get(data.publicKey), sessionId |-> Get(sessionId)])
  IN IF tried.kind = "threw"
       THEN joinCatch(build, accessToken, displayName, Get(tried.thrown))
       ELSE tried

\* join up to the await: the input validation (join/index.ts 14-22,
\* config.d.ts 37-45), then the request.
JoinCall(build, accessToken, displayName) ==
  /\ joining.pc = "idle"
  /\ LET started == [joining EXCEPT !.fn = "join", !.build = build,
                       !.accessToken = accessToken, !.displayName = displayName]
         invalid(message, field, value) ==
           [started EXCEPT !.pc = "done",
              !.out = Some(Reject(ValidationError(message, Some(field), Some(value))))]
     IN joining' =
          IF accessToken = ""
            THEN invalid("Access token is required and must be a string", "accessToken",
                         accessToken)
          ELSE IF trimLength(accessToken) < 10
            THEN invalid("Access token appears to be invalid", "accessToken",
                         "token too short")
          ELSE IF build = "config.d.ts" /\ displayName = ""
            THEN invalid("Display name is required and must be a string", "displayName",
                         displayName)
          ELSE [started EXCEPT !.pc = "awaiting", !.sends = joining.sends + 1]
  /\ UNCHANGED <<observers, transportVars, agg, login, addresses, conn, errs, log, retrying, notifying>>

\* catch (error) of joinCallback (join/index.ts 203-217, config.d.ts
\* 290-303).
joinCallbackCatch(credential, accessToken, sessionId, error) ==
  IF isEaseSDKError(error) THEN Reject(error)
  ELSE Reject(handleUnknownError(error,
         [EmptyCtx EXCEPT !.operation = Some("joinCallback"),
                          !.tokenPrefix = Some(substring8(accessToken)),
                          !.sessionId = Some(substring8(sessionId)),
                          !.credentialId = Some(substring8(credential.id))]))

\* joinCallback after `await api(...)` returned `response` (join/index.ts
\* 148-217, config.d.ts 217-303).
joinCallback(build, credential, accessToken, sessionId, response) ==
  LET ctx == Some([EmptyCtx EXCEPT !.tokenPrefix = Some(substring8(accessToken)),
                                   !.sessionId = Some(substring8(sessionId))])
      failed(message) == Reject(WebAuthnError(message, "PASSKEY_CREATION_FAILED", ctx))
      data == Get(response.data)
      tried ==
        IF ~response.success
          THEN IF IsSome(response.errorDetails) /\ isEaseSDKError(Get(response.errorDetails))
                 THEN Reject(Get(response.errorDetails))
               ELSE IF response.statusCode = Some(401)
                 THEN Reject(AuthenticationError("Invalid or expired access token",
                                                 "UNAUTHORIZED", ctx))
               ELSE IF response.statusCode = Some(400)
                 THEN failed(IF Truthy(response.error) THEN Get(response.error)
                             ELSE "Invalid WebAuthn attestation")
               ELSE failed(IF Truthy(response.error) THEN Get(response.error)
                           ELSE "Passkey creation failed")
        ELSE IF \/ data.kind = "null"
                \/ ~Truthy(data.accessToken)
                \/ ~Truthy(data.refreshToken)
                \/ (build = "config.d.ts" /\ ~Truthy(data.recipientData))
          THEN failed("Invalid response: missing authentication tokens")
        ELSE Resolve([success |-> TRUE, accessToken |-> Get(data.accessToken),
                      refreshToken |-> Get(data.refreshToken),
                      recipientData |-> IF build = "config.d.ts" THEN data.recipientData
                                        ELSE None])
  IN IF tried.kind = "threw"
       THEN joinCallbackCatch(credential, accessToken, sessionId, Get(tried.thrown))
       ELSE tried

\* joinCallback up to the await: the input validation (join/index.ts
\* 112-132, config.d.ts 167-196), then the request.
JoinCallbackCall(build, credential, accessToken, sessionId, accountName, recipientPublicKey, recipientData) ==
  /\ joining.pc = "idle"
  /\ LET started == [joining EXCEPT !.fn = "joinCallback", !.build = build,
                       !.credential = credential, !.accessToken = accessToken,
                       !.sessionId = sessionId]
         invalid(message, field, value) ==
           [started EXCEPT !.pc = "done",
              !.out = Some(Reject(ValidationError(message, Some(field), value)))]
     IN joining' =
          IF credential = None
            THEN invalid("WebAuthn credential is required", "credential", None)
          ELSE IF accessToken = ""
            THEN invalid("Access token is required and must be a string", "accessToken",
                         Some(accessToken))
          ELSE IF sessionId = ""
            THEN invalid("Session ID is required and must be a string", "sessionId",
                         Some(sessionId))
          ELSE IF build = "config.d.ts" /\ accountName = ""
            THEN invalid("Account name is required and must be a string", "accountName",
                         Some(accountName))
          ELSE IF build = "config.d.ts" /\ recipientPublicKey = ""
            THEN invalid("Recipient public key is required and must be a string",
                         "recipientPublicKey", Some(recipientPublicKey))
          ELSE IF build = "config.d.ts" /\ recipientData = None
            THEN invalid("Recipient data is required", "recipientData", None)
          ELSE IF Get(credential).id = "" \/ ~Get(credential).hasResponse
                    \/ Get(credential).type # "public-key"
            THEN invalid("Invalid WebAuthn credential format", "credential",
                         Some(Get(credential).type))
          ELSE [started EXCEPT !.pc = "awaiting", !.sends = joining.sends + 1]
  /\ UNCHANGED <<observers, transportVars, agg, login, addresses, conn, errs, log, retrying, notifying>>

\* `await api(...)` returns an envelope to join or joinCallback.
JoinSettle ==
  /\ joining.pc = "awaiting"
  /\ \E res \in JoinEnvelopes(joining.fn, joining.accessToken) :
       joining' = [joining EXCEPT
         !.pc = "done", !.res = Some(res),
         !.out = Some(IF joining.fn = "join"
                        THEN join(joining.build, joining.accessToken,
                                  joining.displayName, res)
                        ELSE joinCallback(joining.build, Get(joining.credential),
                                          joining.accessToken, joining.sessionId, res))]
  /\ UNCHANGED <<observers, transportVars, agg, login, addresses, conn, errs, log, retrying, notifying>>

\* `await api(...)` rejects: an exception left internalApi.
JoinApiThrows ==
  /\ joining.pc = "awaiting"
  /\ \E v \in ObserverThrows :
       joining' = [joining EXCEPT
         !.pc = "done",
         !.out = Some(IF joining.fn = "join"
                        THEN joinCatch(joining.build, joining.accessToken,
                                       joining.displayName, v)
                        ELSE joinCallbackCatch(Get(joining.credential),
                                               joining.accessToken, joining.sessionId, v))]
  /\ UNCHANGED <<observers, transportVars, agg, login, addresses, conn, errs, log, retrying, notifying>>

NextJoin ==
  \/ \E build \in JoinBuilds,
        accessToken \in {"", "   short   ", "valid-access-token-12345"},
        displayName \in {"", "Alice"} :
       JoinCall(build, accessToken, displayName)
  \/ \E build \in JoinBuilds, credential \in Credentials,
        accessToken \in {"", "valid-access-token-12345"},
        sessionId \in {"", "session-id-1"}, accountName \in {"", "alice"},
        recipientPublicKey \in {"", "PUB_K1_recipient"},
        recipientData \in {None, Some("recipient-data")} :
       JoinCallbackCall(build, credential, accessToken, sessionId, accountName,
                        recipientPublicKey, recipientData)
  \/ JoinSettle
  \/ JoinApiThrows

SpecJoin == Init /\ [][NextJoin]_vars

\* The join-options request of the join call in progress was answered 2xx
\* with creation options and without a (non-empty) X-Session-Id header.
JoinAnsweredWithoutSessionId ==
  /\ joining.fn = "join" /\ joining.pc = "done" /\ IsSome(joining.res)
  /\ LET response == Get(joining.res)
     IN /\ response.success
        /\ Get(response.data).kind = "object" /\ Truthy(Get(response.data).publicKey)
        /\ \/ response.headers = None
           \/ ~Truthy(Get(response.headers).XSessionId)

\* C26: whenever the join-options response carries no X-Session-Id header,
\* join fails with a WebAuthnError "Invalid response: missing session ID";
\* join never returns a result whose sessionId is empty.
C26_MissingSessionIdFails ==
  /\ JoinAnsweredWithoutSessionId =>
       /\ Get(joining.out).kind = "threw"
       /\ Get(Get(joining.out).thrown).name = "WebAuthnError"
       /\ Get(Get(joining.out).thrown).message = "Invalid response: missing session ID"
  /\ (joining.fn = "join" /\ joining.pc = "done" /\ Get(joining.out).kind = "returned") =>
       Get(Get(joining.out).value).sessionId # ""

\* C26, for the version of join in config.d.ts alone.
C26_MissingSessionIdFailsInConfigBuild ==
  joining.build = "config.d.ts" => C26_MissingSessionIdFails

\* C26: the join-options answer without the header has been handled.
C26_Witness ==
  JoinAnsweredWithoutSessionId /\ Get(joining.res).headers = Some([XSessionId |-> None])

\* loginCallback and joinCallback side by side.
NextCallbacks == NextLogin \/ NextJoin

SpecCallbacks == Init /\ [][NextCallbacks]_vars

\* The credential is missing, has an empty id, has no response, or has a
\* type other than "public-key".
MalformedCredential(credential) ==
  \/ credential = None
  \/ Get(credential).id = ""
  \/ ~Get(credential).hasResponse
  \/ Get(credential).type # "public-key"

\* The call ended by raising a ValidationError.
RaisedValidationError(call) ==
  /\ call.pc = "done"
  /\ Get(call.out).kind = "threw"
  /\ Get(Get(call.out).thrown).name = "ValidationError"

\* C27: whenever the credential is missing, has an empty id, has no
\* response, or has a type other than "public-key", loginCallback and
\* joinCallback raise a ValidationError and issue no network request.
C27_MalformedCredentialRejected ==
  /\ (login.pc # "idle" /\ MalformedCredential(login.credential)) =>
       (RaisedValidationError(login) /\ login.sends = 0)
  /\ (joining.pc # "idle" /\ joining.fn = "joinCallback"
        /\ MalformedCredential(joining.credential)) =>
       (RaisedValidationError(joining) /\ joining.sends = 0)

\* C27: loginCallback was called with a credential of type "password" and
\* joinCallback with a credential without response, every other argument
\* being valid.
C27_Witness ==
  /\ login.pc = "done" /\ login.sessionId = "session-id-1"
  /\ login.credential =
       Some([id |-> "credential-id-1", hasResponse |-> TRUE, type |-> "password"])
  /\ joining.pc = "done" /\ joining.fn = "joinCallback"
  /\ joining.accessToken = "valid-access-token-12345"
  /\ joining.sessionId = "session-id-1"
  /\ joining.credential =
       Some([id |-> "credential-id-1", hasResponse |-> FALSE, type |-> "public-key"])
  /\ MalformedCredential(login.credential) /\ RaisedValidationError(login)
  /\ Get(Get(joining.out).thrown).message = "Invalid WebAuthn credential format"

(* The logger: src/src/utils/logger.ts 5-90 *)

MaxLogCalls == 3
MaxLogRequests == 4

\* enum LogLevel (lines 5-11).
LogLevel == [DEBUG |-> 0, INFO |-> 1, WARN |-> 2, ERROR |-> 3, SILENT |-> 4]

\* The level a logging method writes at ('debug' | 'info' | 'warn' | 'error').
LevelOf(method) ==
  CASE method = "debug" -> LogLevel.DEBUG
    [] method = "info" -> LogLevel.INFO
    [] method = "warn" -> LogLevel.WARN
    [] method = "error" -> LogLevel.ERROR

RECURSIVE Logger_error(_, _)

\* logEvent up to its first await (lines 62-82), on the logger state l: the
\* request is started and left pending; when JSON.stringify(body) throws
\* (`serializable` is false: a cyclic argument, a BigInt) the catch block
\* (lines 87-89) reports the TypeError through this.error.
Logger_logEvent(l, serializable) ==
  IF serializable
    THEN [l EXCEPT !.pending = @ + 1, !.requests = @ + 1]
    ELSE Logger_error(l, TRUE)

\* error (lines 50-55): a console line, then logEvent, which is not awaited.
Logger_error(l, serializable) ==
  IF l.level <= LogLevel.ERROR
    THEN Logger_logEvent([l EXCEPT !.lines = @ + 1], serializable)
    ELSE l

\* debug, info, warn (lines 32-48): a console line when the level allows it.
Logger_write(l, method) ==
  IF l.level <= LevelOf(method) THEN [l EXCEPT !.lines = @ + 1] ELSE l

\* error that waits for the log-event request it started.
LoggerCallAwaitsLogEvent(method, serializable) ==
  /\ log.calls < MaxLogCalls
  /\ log.requests < MaxLogRequests
  /\ LET after == IF method = "error" THEN Logger_error(log, serializable)
                  ELSE Logger_write(log, method)
     IN log' = [after EXCEPT !.calls = @ + 1, !.last = method,
                             !.out = IF after.pending > log.pending THEN "awaiting"
                                     ELSE "returned"]
  /\ UNCHANGED <<observers, transportVars, agg, login, addresses, conn, errs, joining, retrying, notifying>>

\* configure (lines 25-30).
Configure(level) ==
  /\ log' = [log EXCEPT !.level = level]
  /\ UNCHANGED <<observers, transportVars, agg, login, addresses, conn, errs, joining, retrying, notifying>>

\* One call of debug, info, warn or error, from its entry to its return.
LoggerCall(method, serializable) ==
  /\ log.calls < MaxLogCalls
  /\ log.requests < MaxLogRequests
  /\ LET after == IF method = "error" THEN Logger_error(log, serializable)
                  ELSE Logger_write(log, method)
     IN log' = [after EXCEPT !.calls = @ + 1, !.last = method, !.out = "returned"]
  /\ UNCHANGED <<observers, transportVars, agg, login, addresses, conn, errs, joining, retrying, notifying>>

\* A pending log-event request settles (lines 76-89): response.ok, a
\* response that is not ok, or a rejection.  The two failures are reported
\* through this.error, which starts the next log-event request.
LogEventSettle(result) ==
  /\ log.pending > 0
  /\ result = "ok" \/ log.requests < MaxLogRequests
  /\ LET settled == [log EXCEPT !.pending = @ - 1]
     IN log' = IF result = "ok" THEN settled ELSE Logger_error(settled, TRUE)
  /\ UNCHANGED <<observers, transportVars, agg, login, addresses, conn, errs, joining, retrying, notifying>>

NextLogger ==
  \/ \E level \in 0..4 : Configure(level)
  \/ \E method \in {"debug", "info", "warn", "error"}, serializable \in BOOLEAN :
       LoggerCall(method, serializable)
  \/ \E result \in {"ok", "notOk", "rejected"} : LogEventSettle(result)

SpecLogger == Init /\ [][NextLogger]_vars

\* C28: for every configured level and every outcome of the remote
\* log-event request, debug, info, warn and error never throw to their
\* caller and never block it: each call returns in the step it was made,
\* and the request it started, if any, is still pending at that moment.
C28_LoggerReturnsAtOnce ==
  /\ [](log.calls > 0 => log.out = "returned")
  /\ [][log'.calls # log.calls =>
          /\ log'.out = "returned"
          /\ log'.pending >= log.pending
          /\ log'.pending - log.pending = log'.requests - log.requests]_vars

\* C28: error was called at a level that lets it through, its log-event
\* request failed, and the logger has started the report of that failure.
C28_Witness ==
  /\ log.calls > 0 /\ log.last = "error" /\ log.level <= LogLevel.ERROR
  /\ log.out = "returned" /\ log.requests >= 2 /\ log.pending = 1

(* Properties of the history aggregators *)

\* The history request of the aggregator call in progress was answered 2xx
\* with a list (BTC) of transactions.
BtcHistoryAnswered ==
  /\ agg.pc = "done" /\ toUpperCase(agg.coin) = "BTC" /\ agg.action = "history"
  /\ IsSome(agg.res) /\ Get(agg.res).success /\ isArray(Get(agg.res).data)

\* C29: for every transaction in a BTC history response, the resulting
\* Transaction has direction IN if and only if some output (vout) pays the
\* queried address; its amount is that output's value when IN, and when OUT
\* the value of the spent input (vin[].prevout) paying the queried address,
\* or 0 if there is none, divided by 1e8 to 8 decimals; its explorerUrl is
\* {explorer}/tx/{txid}, the explorer being the host the request went to.
C29_BtcHistory ==
  BtcHistoryAnswered =>
    LET txs == Get(Get(agg.res).data).items
        url == AggRequest(agg.fn, "BTC", agg.address, "history").url
    IN /\ Get(agg.out).kind = "returned"
       /\ Len(Get(Get(agg.out).history)) = Len(txs)
       /\ \A k \in 1..Len(txs) :
            LET tx == txs[k]
                t == Get(Get(agg.out).history)[k]
                paying == {o \in 1..Len(tx.vout) : tx.vout[o].addr = agg.address}
                spent == {i \in 1..Len(tx.vin) :
                            tx.vin[i].hasPrevout /\ tx.vin[i].addr = agg.address}
            IN /\ t.id = tx.id
               /\ t.type \in {"in", "out"}
               /\ t.type = "in" <=> paying # {}
               /\ paying # {} => \E o \in paying : t.amount = toFixed8(tx.vout[o].value)
               /\ (paying = {} /\ spent # {}) =>
                    \E i \in spent : t.amount = toFixed8(tx.vin[i].value)
               /\ (paying = {} /\ spent = {}) => t.amount = "0.00000000"
               /\ \E explorer \in {"https://mempool.space/testnet", "https://mempool.space"} :
                    /\ url = explorer \o "/api/address/" \o agg.address \o "/txs"
                    /\ t.explorerURL = explorer \o "/tx/" \o tx.id

\* C29: a BTC history of five transactions has been normalized: incoming,
\* outgoing, incoming with two outputs and a spent input of the address,
\* outgoing without an input of the address, incoming with value 0.
C29_Witness ==
  /\ BtcHistoryAnswered /\ agg.address = "addr1"
  /\ Get(Get(agg.out).history) =
       <<Transaction("btc_trx1", "in", "1.00000000", "https://mempool.space/testnet/tx/btc_trx1"),
         Transaction("btc_trx2", "out", "0.50000000", "https://mempool.space/testnet/tx/btc_trx2"),
         Transaction("btc_trx3", "in", "0.30000000", "https://mempool.space/testnet/tx/btc_trx3"),
         Transaction("btc_trx4", "out", "0.00000000", "https://mempool.space/testnet/tx/btc_trx4"),
         Transaction("btc_trx5", "in", "0.00000000", "https://mempool.space/testnet/tx/btc_trx5")>>

\* The internal-chain history request of the aggregator call in progress was
\* answered 2xx with an object that holds a list of actions.
EaseHistoryAnswered ==
  /\ agg.pc = "done" /\ toUpperCase(agg.coin) = "EASE" /\ agg.action = "history"
  /\ IsSome(agg.res) /\ Get(agg.res).success
  /\ Get(Get(agg.res).data).kind = "object"
  /\ Get(Get(agg.res).data).actions.tag = "array"

\* C30: internal-chain history returns one Transaction for each
\* token-transfer action of the internal token contract in the response, in
\* the order of the response, and none for any other action; each has
\* direction IN if the action's `to` field equals the queried address and
\* OUT otherwise.
C30_EaseHistory ==
  EaseHistoryAnswered =>
    LET isTransfer(a) == a.account = "eosio.token" /\ a.name = "transfer"
        transfers == SelectSeq(Get(Get(agg.res).data).actions.items, isTransfer)
    IN /\ Get(agg.out).kind = "returned"
       /\ Len(Get(Get(agg.out).history)) = Len(transfers)
       /\ \A k \in 1..Len(transfers) :
            LET t == Get(Get(agg.out).history)[k]
            IN /\ t.id = transfers[k].id
               /\ t.type = IF transfers[k].to = agg.address THEN "in" ELSE "out"

\* C30, for getWalletHistory alone.
C30_EaseHistoryInWallet ==
  agg.fn = "wallet" => C30_EaseHistory

\* C30: an internal-chain history of two transfers and one other action has
\* been normalized.
C30_Witness ==
  /\ EaseHistoryAnswered /\ agg.address = "addr1"
  /\ Len(Get(Get(agg.res).data).actions.items) = 3
  /\ Get(agg.out).kind = "returned"

\* The BTC balance request of the aggregator call in progress was answered
\* 2xx with an object whose chain_stats is an object.
BtcBalanceAnswered ==
  /\ agg.pc = "done" /\ toUpperCase(agg.coin) = "BTC" /\ agg.action = "balance"
  /\ IsSome(agg.res) /\ Get(agg.res).success
  /\ Get(Get(agg.res).data).kind = "object"
  /\ Get(Get(agg.res).data).chain_stats.tag = "object"

\* C31: for a BTC address response with well-formed chain_stats, the balance
\* returned is (funded_txo_sum - spent_txo_sum) / 1e8 written with exactly 8
\* decimal places: funded 200000000 and spent 100000000 give "1.00000000".
C31_BtcBalance ==
  BtcBalanceAnswered =>
    LET stats == Get(Get(agg.res).data).chain_stats
        sats == stats.funded - stats.spent
        expected == CASE sats = 0 -> "0.00000000"
                      [] sats = 1 -> "0.00000001"
                      [] sats = 100000000 -> "1.00000000"
                      [] sats = 150000000 -> "1.50000000"
                      [] sats = 2123456789 -> "21.23456789"
    IN /\ Get(agg.out).kind = "returned"
       /\ Get(agg.out).balance = Some(expected)

\* C31: the scenario of the specification has been answered, and so has a
\* balance of one satoshi.
C31_Witness ==
  /\ BtcBalanceAnswered
  /\ Get(Get(agg.res).data).chain_stats.funded = 123456789
  /\ Get(Get(agg.res).data).chain_stats.spent = 123456788
  /\ Get(agg.out).balance = Some("0.00000001")

(* Properties of the notifications *)

\* C32: for every `send` call, transport observers receive exactly one
\* terminal notification (either onResponse or onError): a call that ends
\* while an observer is registered has run _notify.response or
\* _notify.error once, never twice.
C32_OneTerminalNotification ==
  [][\A c \in Calls :
       (pc'[c] = "done" /\ pc[c] # "done" /\ Len(observers) > 0) =>
         terminal'[c] = Some(1)]_vars

\* C32, for the calls during which no observer callback threw.
C32_OneTerminalNotificationQuiet ==
  [][\A c \in Calls :
       (pc'[c] = "done" /\ pc[c] # "done" /\ Len(observers) > 0 /\ ~sinkAffected'[c]) =>
         terminal'[c] = Some(1)]_vars

\* C32: the number of terminal notifications of a call is 1 or 2.
C32_OneOrTwoTerminalNotifications ==
  \A c \in Calls : pc[c] = "done" => terminal[c] \in {Some(1), Some(2)}

\* C33: a single call to logger.error causes a bounded number of remote
\* log-event requests, even when every request to the logging endpoint fails
\* or returns a non-ok status: after one call the number of requests stays
\* below every number the model counts to (MaxLogRequests).
C33_ErrorLoggingBounded ==
  log.calls = 1 => log.requests < MaxLogRequests

\* C33: a log-event request that settles starts no further log-event
\* request and writes no console line.
C33_NoSelfFeeding ==
  [][log'.calls = log.calls =>
       (log'.requests = log.requests /\ log'.lines = log.lines)]_vars

(* The retry helper: src/unnamed/part_011 247-269 *)

MaxRetries == 2

\* The default of options.retryableStatusCodes (line 251).
retryableStatusCodes == {429, 500, 502, 503, 504}

\* error?.statusCode || error?.response?.status (line 258), for the values
\* of the model, none of which has a `response` member: None is undefined.
statusCodeOf(error) ==
  IF IsSome(error.statusCode) /\ Get(error.statusCode) # 0 THEN error.statusCode
  ELSE None

\* What one attempt `await fn()` can end with.  fn is "send", a call of
\* internalApi on a request the server answers (it resolves with an envelope,
\* also for a non-2xx answer: api/index.ts 216-221; it rejects when an
\* observer callback throws), or "throws", a function that rejects with the
\* error of a failed request.
Attempts(fn) ==
  LET r == [url |-> "/login/callback", method |-> "POST", body |-> "json",
            headers |-> None]
  IN IF fn = "send"
       THEN {Resolve(SuccessEnvelope("object"))}
              \cup {Resolve(HttpFailureEnvelope(r, st, None)) : st \in {400, 429, 503}}
              \cup {Reject(e) : e \in ObserverThrows}
       ELSE {Resolve(SuccessEnvelope("object"))}
              \cup {Reject(createErrorFromAPIResponse(st, Body(None, None), RequestCtx(r.url, r.method))) :
                      st \in {400, 429, 503}}
              \cup {Reject(e) : e \in FetchRejections}

\* Math.min(a, b)
min(a, b) == IF a <= b THEN a ELSE b

\* retry up to the first `await fn()` (lines 251-256).  With retries < 0 the
\* loop body never runs and line 268 throws.
RetryCall(fn, retries, delay, factor, maxDelay) ==
  /\ retrying.pc = "idle"
  /\ LET started == [retrying EXCEPT !.fn = fn, !.retries = retries,
                       !.factor = factor, !.maxDelay = maxDelay,
                       !.currentDelay = delay, !.i = 0]
     IN retrying' =
          IF 0 <= retries
            THEN [started EXCEPT !.pc = "attempt", !.calls = 1]
            ELSE [started EXCEPT !.pc = "done",
                    !.out = Some(Reject(JsError("Error",
                                   "Retry function failed unexpectedly.")))]
  /\ UNCHANGED <<observers, transportVars, agg, login, addresses, conn, errs, joining, log, notifying>>

\* `return await fn()` resolves (line 256).
AttemptResolves ==
  /\ retrying.pc = "attempt"
  /\ \E a \in Attempts(retrying.fn) :
       /\ a.kind = "returned"
       /\ retrying' = [retrying EXCEPT !.pc = "done", !.last = Some(a), !.out = Some(a)]
  /\ UNCHANGED <<observers, transportVars, agg, login, addresses, conn, errs, joining, log, notifying>>

\* `await fn()` rejects (lines 257-265): the helper starts a wait of
\* currentDelay, or rethrows.
AttemptRejects ==
  /\ retrying.pc = "attempt"
  /\ \E a \in Attempts(retrying.fn) :
       /\ a.kind = "threw"
       /\ LET statusCode == statusCodeOf(Get(a.thrown))
          IN retrying' =
               IF /\ retrying.i < retrying.retries
                  /\ (statusCode = None \/ Get(statusCode) \in retryableStatusCodes)
                 THEN [retrying EXCEPT !.pc = "waiting", !.last = Some(a),
                         !.waits = Append(@, retrying.currentDelay)]
                 ELSE [retrying EXCEPT !.pc = "done", !.last = Some(a), !.out = Some(a)]
  /\ UNCHANGED <<observers, transportVars, agg, login, addresses, conn, errs, joining, log, notifying>>

\* The timer of the wait fires (lines 261-262, then the loop header and
\* line 256): the delay is scaled and capped and fn is called again.
WaitElapses ==
  /\ retrying.pc = "waiting"
  /\ retrying' = [retrying EXCEPT
       !.pc = "attempt", !.i = @ + 1, !.calls = @ + 1,
       !.currentDelay = min(retrying.currentDelay * retrying.factor, retrying.maxDelay)]
  /\ UNCHANGED <<observers, transportVars, agg, login, addresses, conn, errs, joining, log, notifying>>

NextRetry ==
  \/ \E fn \in {"send", "throws"}, retries \in (-1)..MaxRetries, delay \in {1, 5},
        factor \in {1, 2}, maxDelay \in {3, 4} :
       RetryCall(fn, retries, delay, factor, maxDelay)
  \/ AttemptResolves
  \/ AttemptRejects
  \/ WaitElapses

SpecRetry == Init /\ [][NextRetry]_vars

\* The event loop runs every pending continuation and timer.
SpecRetryFair == SpecRetry /\ WF_vars(NextRetry)

\* The helper has settled with a failure envelope of internalApi whose HTTP
\* status is one of the retryable ones.
SettledOnRetryableEnvelope ==
  /\ retrying.pc = "done"
  /\ retrying.fn = "send"
  /\ IsSome(retrying.out)
  /\ Get(retrying.out).kind = "returned"
  /\ ~Get(Get(retrying.out).value).success
  /\ Get(Get(Get(retrying.out).value).statusCode) \in retryableStatusCodes

\* C34: a wrapped send whose request fails with a retryable HTTP status
\* (429, 500, 502, 503, 504) is attempted again, up to `retries` further
\* times: the helper settles on such a failure only after retries + 1 attempts.
C34_RetryableStatusRetried ==
  SettledOnRetryableEnvelope => retrying.calls = retrying.retries + 1

\* C34, for a wrapped function that rejects with the error of the failed
\* request instead of resolving with an envelope: the helper settles on a
\* retryable status only after retries + 1 attempts.
C34_ThrownRetryableStatusRetried ==
  (/\ retrying.pc = "done"
   /\ 0 <= retrying.retries
   /\ IsSome(retrying.out)
   /\ Get(retrying.out).kind = "threw"
   /\ IsSome(statusCodeOf(Get(Get(retrying.out).thrown)))
   /\ Get(statusCodeOf(Get(Get(retrying.out).thrown))) \in retryableStatusCodes)
    => retrying.calls = retrying.retries + 1

\* The helper has settled and what it settled with is the outcome of the
\* last attempt it made: the value that attempt resolved with, or the error
\* it rejected with.
SettledWithLastAttempt ==
  /\ IsSome(retrying.out)
  /\ IsSome(retrying.last)
  /\ retrying.out = retrying.last
  /\ 1 <= retrying.calls

\* C35: the retry helper calls the wrapped function at most retries + 1
\* times, and when it settles it returns the result of the first successful
\* attempt or rethrows the error of the last attempt it made.
C35_SettlesWithAnAttempt ==
  /\ retrying.calls <= retrying.retries + 1
  /\ retrying.pc = "done" => SettledWithLastAttempt

\* C35 for retries >= 0: at most retries + 1 calls, every call but the last
\* one rejected and was followed by one wait, and the helper settles with the
\* outcome of its last call.
C35_SettlesWithAnAttemptForNaturalRetries ==
  0 <= retrying.retries =>
    /\ retrying.calls <= retrying.retries + 1
    /\ retrying.pc = "done" =>
         /\ SettledWithLastAttempt
         /\ retrying.calls = Len(retrying.waits) + 1

\* C35, always settles: once called, the helper returns or throws.
C35_AlwaysSettles == (retrying.pc # "idle") ~> (retrying.pc = "done")

\* The helper has given up after retries + 1 rejected attempts.
C35_Witness ==
  /\ retrying.pc = "done"
  /\ retrying.retries = MaxRetries
  /\ retrying.calls = MaxRetries + 1
  /\ Get(retrying.out).kind = "threw"

\* C36: every wait the helper inserts between two attempts is at most
\* maxDelay, whatever delay, factor and maxDelay are.
C36_EveryWaitCapped ==
  \A k \in 1..Len(retrying.waits) : retrying.waits[k] <= retrying.maxDelay

\* C36 without the first wait: every wait after the first one is at most
\* maxDelay (line 262 caps the delay only after a wait has been served).
C36_LaterWaitsCapped ==
  \A k \in 2..Len(retrying.waits) : retrying.waits[k] <= retrying.maxDelay

\* The helper has waited twice and the second wait was cut down to maxDelay.
C36_Witness ==
  /\ Len(retrying.waits) = 2
  /\ retrying.waits[2] = retrying.maxDelay
  /\ retrying.waits[1] * retrying.factor > retrying.maxDelay

----------------------------------------------------------------------------
(* connectToWebSocket: how its promise settles and how an outage ends *)

\* A token request settles, a reconnection timer fires and a socket that is
\* connecting opens or closes; an open socket may stay open and the caller
\* may never call close().
SpecWebSocketFair ==
  /\ SpecWebSocket
  /\ WF_vars(TokenResolve \/ TokenReject)
  /\ WF_vars(ReconnectTimerFire)
  /\ WF_vars(\E i \in 1..Len(conn.ws) :
               conn.ws[i] = "connecting" /\ (SocketOpen(i) \/ SocketClose(i)))

\* resolve or reject is called at most once, with the socket that opened or
\* with the first error reported to onError, and nothing touches the promise
\* afterwards.
SettledAtMostOnce ==
  /\ [](/\ Len(conn.settlements) <= 1
        /\ (conn.promise = "pending") = (conn.settlements = <<>>)
        /\ conn.promise = "resolved" =>
             /\ conn.settlements = << <<"resolve", conn.returned>> >>
             /\ conn.returned \in 1..Len(conn.ws)
             /\ conn.ws[conn.returned] \in {"open", "closed"}
        /\ conn.promise = "rejected" =>
             /\ conn.onError # <<>>
             /\ conn.settlements = << <<"reject", conn.onError[1]>> >>)
  /\ [][conn.promise # "pending" =>
          /\ conn'.promise = conn.promise
          /\ conn'.settlements = conn.settlements
          /\ conn'.returned = conn.returned]_vars

\* C37: the promise returned by connectToWebSocket is settled exactly once,
\* resolved with the opened socket or rejected with the first fatal error,
\* and no later open, close or token failure settles it again.
C37_SettledExactlyOnce ==
  /\ SettledAtMostOnce
  /\ (conn.pc = "running") ~> (Len(conn.settlements) = 1)

\* C37 without the promise that it settles: the promise is never settled
\* twice, a resolution carries the socket that opened, a rejection the first
\* error reported, and later opens, closes and token failures leave it alone.
C37_NeverSettledTwice ==
  /\ SettledAtMostOnce
  /\ [][(conn.promise # "pending" /\ conn'.onError # conn.onError)
          => conn'.settlements = conn.settlements]_vars

\* C37 with reconnection enabled: the promise does settle.
C37_SettlesWhenReconnecting ==
  (conn.pc = "running" /\ conn.enabled) ~> (Len(conn.settlements) = 1)

\* The promise was resolved and a later outage ended with the
\* maximum-attempts error.
C37_Witness ==
  /\ conn.promise = "resolved"
  /\ conn.onError = <<MaxAttemptsMessage>>

\* Reconnection is enabled, the caller has not closed the connection, and a
\* connection attempt is under way: a reconnection timer is running, a token
\* request is in flight or a socket is connecting.
Reconnecting ==
  /\ conn.enabled
  /\ ~conn.isClosed
  /\ \/ conn.timers > 0
     \/ conn.tokenRequests > 0
     \/ \E i \in 1..Len(conn.ws) : conn.ws[i] = "connecting"

\* C38: whenever the connection closes while reconnection is enabled and the
\* caller has not closed it, eventually a connection is opened again or
\* onError is invoked.  The close either schedules a reconnection or reports
\* to onError at once, and a scheduled reconnection leads to an open socket
\* or to a further call of onError, unless the caller closes meanwhile.
C38_ReconnectionNeverStopsSilently ==
  /\ [][\A i \in 1..Len(conn.ws) :
          (/\ conn.ws[i] # "closed" /\ conn'.ws[i] = "closed"
           /\ conn.enabled /\ ~conn'.isClosed)
            => \/ conn'.timers = conn.timers + 1
               \/ Len(conn'.onError) = Len(conn.onError) + 1]_vars
  /\ \A n \in 0..MaxSockets :
       (Reconnecting /\ conn.sinceOpen + conn.timers > 0 /\ Len(conn.onError) = n)
         ~> \/ \E i \in 1..Len(conn.ws) : conn.ws[i] = "open"
            \/ Len(conn.onError) > n
            \/ conn.isClosed

\* After an outage the second socket has opened.
C38_Witness ==
  /\ Len(conn.ws) = 2
  /\ conn.ws[1] = "closed" /\ conn.ws[2] = "open"
  /\ ~conn.isClosed /\ conn.enabled

----------------------------------------------------------------------------
(* _notify while observers unsubscribe: src/src/core/telemetry.ts 4-18 *)

MaxListeners == 3
MaxNotifications == 2

Listeners == 1..MaxListeners

Range(seq) == {seq[i] : i \in 1..Len(seq)}

\* addTransportObserver(o) (lines 6-7) for an observer that is not
\* registered: observers.push(o).
push(o) ==
  /\ o \notin Range(observers)
  /\ Len(observers) < MaxListeners
  /\ observers' = Append(observers, o)
  /\ UNCHANGED <<transportVars, agg, login, addresses, conn, errs, joining, log, retrying, notifying>>

\* Array.prototype.forEach over `observers` from position k on (lines
\* 15-17): the length is read once, before the loop (len); a position is
\* visited when it is still inside the array, and positions are not adjusted
\* when a callback removes an element.  choice[o] is the observer whose
\* unsubscribe closure the callback of o calls (lines 9-10), 0 for none.
\* The result: the array after the loop, the callbacks invoked in order, the
\* observers removed, and those invoked after their removal.
RECURSIVE forEach(_, _, _, _, _, _, _)
forEach(obs, k, len, choice, called, removed, late) ==
  IF k > len
    THEN [observers |-> obs, called |-> called, removed |-> removed, late |-> late]
  ELSE IF k > Len(obs)
    THEN forEach(obs, k + 1, len, choice, called, removed, late)
  ELSE LET o == obs[k]
           i == IF choice[o] = 0 THEN 0 ELSE indexOf(obs, choice[o])
       IN forEach(IF i >= 1 THEN splice(obs, i) ELSE obs, k + 1, len, choice,
                  Append(called, o),
                  IF i >= 1 THEN removed \cup {choice[o]} ELSE removed,
                  IF o \in removed THEN late \cup {o} ELSE late)

\* One call of _notify.request, _notify.response or _notify.error (lines
\* 15-17) whose callbacks return: the whole forEach.
notify(choice) ==
  /\ notifying.sent < MaxNotifications
  /\ LET run == forEach(observers, 1, Len(observers), choice, <<>>, {}, {})
     IN /\ observers' = run.observers
        /\ notifying' = [sent |-> notifying.sent + 1, before |-> observers,
                         called |-> run.called, removed |-> run.removed,
                         late |-> run.late]
  /\ UNCHANGED <<transportVars, agg, login, addresses, conn, errs, joining, log, retrying>>

NextTelemetry ==
  \/ \E o \in Listeners : push(o)
  \/ \E o \in Listeners : unsubscribe(o)
  \/ \E choice \in [Listeners -> 0..MaxListeners] : notify(choice)

SpecTelemetry == Init /\ [][NextTelemetry]_vars

\* An observer whose unsubscribe function has been called is not invoked
\* afterwards: a notification invokes only observers that were in the array
\* when it started, each at most once, and none after a callback has removed
\* it.
NoneAfterUnsubscribe ==
  /\ notifying.late = {}
  /\ Range(notifying.called) \subseteq Range(notifying.before)
  /\ \A i, j \in 1..Len(notifying.called) :
       notifying.called[i] = notifying.called[j] => i = j

\* C39: after unsubscribe has been called the observer receives no further
\* notification, and every other registered observer receives every
\* notification, also when unsubscribe is called from inside an observer
\* callback during the notification.
C39_UnsubscribeLeavesOthersNotified ==
  /\ NoneAfterUnsubscribe
  /\ \A o \in Range(notifying.before) \ notifying.removed :
       o \in Range(notifying.called)

\* C39 for notifications during which no callback unsubscribes anything:
\* every registered observer is invoked, in order of registration.
C39_UnsubscribeBetweenNotifications ==
  /\ NoneAfterUnsubscribe
  /\ notifying.removed = {} => notifying.called = notifying.before

\* A notification of three observers during which the last one was removed
\* by the callback of the first.
C39_Witness ==
  /\ Len(notifying.before) = 3
  /\ notifying.removed = {notifying.before[3]}
  /\ notifying.called = SubSeq(notifying.before, 1, 2)

====
